---- MODULE Spec2Model ----
(***************************************************************************)
(* Object pools of Jiggle Factorial 3D: BallPool and LabelPool             *)
(* (src/unnamed/part_000, the second, fuller pair of classes, lines        *)
(* 420-734; the first pair, lines 169-406, has the same list handling and  *)
(* a subset of the fields).                                                *)
(*                                                                         *)
(* Units: scale, emissiveIntensity, targetScale, currentSpeedMultiplier    *)
(* and animationProgress are kept in hundredths (1.0 is 100, 0.05 is 5).   *)
(* A JavaScript null is the empty tuple, a present value v is <<v>>.       *)
(* Array indexes are 1-based; indexOf's -1 is 0.                           *)
(***************************************************************************)
EXTENDS Integers, Sequences, FiniteSets, TLC

VARIABLES
  bpPool,        \* BallPool.pool: the free list (array of balls)
  bpActive,      \* BallPool.active: the active list (array of balls)
  bpLabelPool,   \* BallPool.labelPool: TRUE once a LabelPool is injected, FALSE for null
  ballCount,     \* number of balls constructed so far; ball identities are 1..ballCount
  balls,         \* ball identity -> the ball's fields (mesh properties and userData)
  lpPool,        \* LabelPool.pool: key (number.toString()) -> template identity
  lpActive,      \* LabelPool.active: array of clones handed out
  lpLoadedFont,  \* LabelPool.loadedFont: TRUE for a font, FALSE for null
  labelCount,    \* number of label objects constructed; identities are 1..labelCount
  labels,        \* label identity -> [visible, number, clonedFrom]
  createCalls,   \* history: number -> how many times createLabel(number) ran
  sc,            \* history of the initialize / acquire / release scenario
  activeAnimations, \* AnimationManager.activeAnimations: array of animations
  isRunning,     \* AnimationManager.isRunning
  animationId,   \* AnimationManager.animationId: Null or <<frame request>>
  rafPending,    \* browser: the frame requests not yet run or cancelled, oldest first
  now,           \* Date.now()
  anims,         \* animation identity (1.. in order of add) -> its fields and history
  calls,         \* history: the callbacks invoked by the last scheduler call or refresh
  fx             \* the objects the effects write: a ball, the scene, disposals

poolVars == <<bpPool, bpActive, bpLabelPool, ballCount, balls, lpPool, lpActive,
              lpLoadedFont, labelCount, labels, createCalls, sc>>

animVars == <<activeAnimations, isRunning, animationId, rafPending, now, anims,
              calls, fx>>

vars == <<poolVars, animVars>>

----------------------------------------------------------------------------
(* Bounds of the exploration *)

MaxBalls == 3          \* balls constructed under Spec
MaxLabelObjs == 2      \* label objects (templates and clones) constructed under Spec
FMaxBalls == 2         \* balls constructed under SpecFields
LMaxLabelObjs == 5     \* label objects constructed under SpecLabels
ScMaxInit == 3         \* largest maxSize of the scenario
ScMaxAcquire == 4      \* most acquires of the scenario
MaxAnims == 2          \* animations registered under SpecAnim
MaxTime == 3           \* last clock reading under SpecAnim
CMaxAnims == 2         \* animations registered under SpecCallbacks
CMaxTime == 2          \* last clock reading under SpecCallbacks
OMaxAnims == 3         \* animations registered under SpecOrder
OMaxTime == 3          \* last clock reading under SpecOrder
KMaxAnims == 2         \* animations registered under SpecClock
KMaxTime == 3          \* last clock reading under SpecClock
PMaxAnims == 2         \* animations registered under SpecPulse
PMaxTime == 1000       \* last clock reading under SpecPulse, milliseconds
GMaxCount == 3         \* largest count under SpecGenerate
EaseBits == 5          \* progress values are multiples of 2^-EaseBits
LiMaxTime == 1000      \* last clock reading under SpecLights, milliseconds
PrMaxDays == 1         \* last clock reading under SpecPrune, days
TcMaxTime == 450       \* last clock reading under SpecTouch, ms after TouchEpoch
TMaxCount == 101       \* largest count under SpecTerminate
MoMaxLoops == 2        \* lighting transitions in progress at once under SpecMoods
MoMaxTime == 1000      \* last clock reading under SpecMoods, milliseconds
FrMaxAnims == 2        \* animations registered under SpecFreed
FrMaxTime == 750       \* last clock reading under SpecFreed, milliseconds
WMaxAnims == 4         \* animations registered under SpecOverlap
WMaxTime == 750        \* last clock reading under SpecOverlap, milliseconds
SMaxAnims == 3         \* animations registered under SpecSelection
SMaxTime == 1000       \* last clock reading under SpecSelection, milliseconds
BMaxAnims == 2         \* animations registered under SpecBurst
BMaxTime == 1300       \* last clock reading under SpecBurst, milliseconds
RMaxAnims == 3         \* animations registered under SpecReentrant
RMaxTime == 3          \* last clock reading under SpecReentrant

Colors == {16711680}            \* colours handed to acquire (0xFF0000)
Numbers == {1, 2}               \* numbers handed to LabelPool.acquire
Durations == {0, 2}             \* durations handed to add
FrameSteps == {1, 2}            \* clock advance from one display refresh to the next
PulseSteps == {250, 500}        \* the same in milliseconds, under SpecPulse
BurstSteps == {300, 500}        \* the same under SpecBurst
RandomDraws == {0, 1, 2, 49, 98, 99}   \* first two decimals of Math.random()
NumberRange == 100              \* numbers are drawn from 1..NumberRange
LightSteps == {250, 500}        \* the same under SpecLights
MoodSteps == {250, 500}         \* the same under SpecMoods
LightDuration == 500            \* milliseconds a lighting transition lasts
SelectionDuration == 500        \* milliseconds selection feedback lasts
BurstDuration == 800            \* milliseconds a particle burst lasts
PulseCycle == 1000              \* milliseconds of one pulse cycle
\* Number.MAX_SAFE_INTEGER is 2^53 - 1; the largest integer the model checker
\* holds stands for it. Every clock reading of the model is below both.
MaxSafeInteger == 2147483647

----------------------------------------------------------------------------
(* Values *)

Null == <<>>
Some(v) == <<v>>
Zero3 == <<0, 0, 0>>
One3 == <<100, 100, 100>>

Range(s) == {s[i] : i \in DOMAIN s}

\* Array.prototype.indexOf: the first index holding x, 0 when there is none.
IndexOf(s, x) ==
  IF x \in Range(s) THEN CHOOSE i \in DOMAIN s : s[i] = x /\ \A j \in 1..(i - 1) : s[j] # x
  ELSE 0

\* Array.prototype.splice(index, 1)
Splice(s, i) == SubSeq(s, 1, i - 1) \o SubSeq(s, i + 1, Len(s))

\* How often x occurs in array s.
Count(s, x) == Cardinality({i \in DOMAIN s : s[i] = x})

\* A number an effect writes, in hundredths (1.2 is Num(120)).
Num(n) == <<n>>

\* What the update function and completion callback of an animation write
\* besides calling the scheduler: nothing ("none"), or the effect of one of
\* the effect builders with the values its closure captured.
\* emissiveAtStart and atComplete are history: the emissive intensity when
\* the effect was started, which no closure captures, and the ball as the
\* completion callback left it (Null before).
NoEffect ==
  [name |-> "none", isCorrect |-> FALSE, startScale |-> Num(0),
   originalPosition |-> <<Num(0), Num(0)>>, emissiveAtStart |-> Num(0),
   atComplete |-> Null]

\* The objects the effects write: one ball (mesh scale and position,
\* material.emissiveIntensity, userData.isCurrentlyHighlighted, and whether
\* it is in the free list of the BallPool), the particle
\* primitives in the scene and the primitives disposed so far, each named by
\* the animation that owns it, the lights object (Null for a light it does
\* not have, else the light's intensity), the lighting transition whose
\* frame is requested, the last value an easing function returned the call
\* of generateNonConsecutiveNumbers in progress or returned last and the
\* StorageManager with the two stores behind it.
LightKeys == {"hemisphere", "directional", "rim", "fill", "ambient"}

\* The lights objects of SpecMoods: all five lights, or two of them.
MoodLightSets == {LightKeys, {"rim", "fill"}}

NoEffects ==
  [ball |-> [scale |-> Num(100), position |-> <<Num(0), Num(0)>>,
             emissiveIntensity |-> Num(5), isCurrentlyHighlighted |-> FALSE,
             free |-> FALSE],
   scene |-> {}, disposed |-> <<>>,
   lights |-> [k \in LightKeys |-> Null], lightLoop |-> <<>>, mood |-> Null,
   eased |-> Null, gen |-> Null, storage |-> Null, touch |-> Null, sw |-> Null]

Min(a, b) == IF a < b THEN a ELSE b
Max(a, b) == IF a > b THEN a ELSE b

\* A function extended (or overwritten) at one point.
Put(f, k, v) == [x \in DOMAIN f \cup {k} |-> IF x = k THEN v ELSE f[x]]

----------------------------------------------------------------------------
(* JavaScript numbers: IEEE 754 binary64, round to nearest, ties to even.   *)
(* A natural number is the sequence of its digits to the base 2^15, lowest  *)
(* first and highest not zero; a number is (-1)^s * m * 2^e with m odd or   *)
(* zero and below 2^53. The values computed here stay far from the ends of  *)
(* the exponent range, so overflow and subnormal numbers are left out.      *)

Precision == 53
LimbBits == 15
Base == 2^LimbBits

RECURSIVE Trim(_)
Trim(a) ==
  IF a = <<>> \/ a[Len(a)] # 0 THEN a ELSE Trim(SubSeq(a, 1, Len(a) - 1))

RECURSIVE LimbsOf(_)
LimbsOf(n) == IF n = 0 THEN <<>> ELSE <<n % Base>> \o LimbsOf(n \div Base)

Rest(a) == IF a = <<>> THEN <<>> ELSE Tail(a)
Low(a) == IF a = <<>> THEN 0 ELSE Head(a)
At(a, i) == IF i \in DOMAIN a THEN a[i] ELSE 0

\* The number of binary digits of a.
BitLen(a) ==
  IF a = <<>> THEN 0
  ELSE LimbBits * (Len(a) - 1)
       + (CHOOSE k \in 1..LimbBits : 2^(k - 1) <= a[Len(a)] /\ a[Len(a)] < 2^k)

\* Binary digit k of a, the lowest being digit 1.
BitAt(a, k) ==
  (At(a, ((k - 1) \div LimbBits) + 1) \div 2^((k - 1) % LimbBits)) % 2

\* a * 2^k.
ShiftLeft(a, k) ==
  LET q == k \div LimbBits
      r == k % LimbBits
  IN Trim([i \in 1..(Len(a) + q + 1) |->
             IF i <= q THEN 0
             ELSE ((At(a, i - q) * 2^r) % Base) + ((At(a, i - q - 1) * 2^r) \div Base)])

\* a \div 2^k.
ShiftRight(a, k) ==
  LET q == k \div LimbBits
      r == k % LimbBits
  IN Trim([i \in 1..Len(a) |->
             (At(a, i + q) \div 2^r) + (At(a, i + q + 1) % 2^r) * 2^(LimbBits - r)])

\* The number of zeros below the lowest 1 of a, a not zero.
TrailingZeros(a) ==
  LET i == CHOOSE i \in DOMAIN a : a[i] # 0 /\ \A j \in 1..(i - 1) : a[j] = 0
  IN LimbBits * (i - 1) + (CHOOSE k \in 0..(LimbBits - 1) : a[i] % 2^(k + 1) = 2^k)

RECURSIVE LimbAdd(_, _, _)
LimbAdd(a, b, carry) ==
  IF a = <<>> /\ b = <<>> THEN LimbsOf(carry)
  ELSE LET s == Low(a) + Low(b) + carry
       IN <<s % Base>> \o LimbAdd(Rest(a), Rest(b), s \div Base)

\* a - b - borrow for a >= b + borrow, not trimmed.
RECURSIVE LimbSubFrom(_, _, _)
LimbSubFrom(a, b, borrow) ==
  IF a = <<>> THEN <<>>
  ELSE LET s == Low(a) - Low(b) - borrow
       IN <<s % Base>> \o LimbSubFrom(Rest(a), Rest(b), IF s < 0 THEN 1 ELSE 0)

LimbSub(a, b) == Trim(LimbSubFrom(a, b, 0))

RECURSIVE LimbLess(_, _)
LimbLess(a, b) ==
  IF Len(a) # Len(b) THEN Len(a) < Len(b)
  ELSE IF a = <<>> THEN FALSE
  ELSE IF a[Len(a)] # b[Len(b)] THEN a[Len(a)] < b[Len(b)]
  ELSE LimbLess(Trim(SubSeq(a, 1, Len(a) - 1)), Trim(SubSeq(b, 1, Len(b) - 1)))

\* a * d + carry for one digit d.
RECURSIVE Scale(_, _, _)
Scale(a, d, carry) ==
  IF a = <<>> THEN LimbsOf(carry)
  ELSE LET p == Head(a) * d + carry
       IN <<p % Base>> \o Scale(Tail(a), d, p \div Base)

RECURSIVE LimbMul(_, _)
LimbMul(a, b) ==
  IF a = <<>> \/ b = <<>> THEN <<>>
  ELSE Trim(LimbAdd(Scale(b, Head(a), 0), <<0>> \o LimbMul(Tail(a), b), 0))

\* Quotient (not trimmed) and remainder of a by one digit d, d not zero.
RECURSIVE DivMod(_, _)
DivMod(a, d) ==
  IF a = <<>> THEN [q |-> <<>>, r |-> 0]
  ELSE LET high == DivMod(Tail(a), d)
           cur == high.r * Base + Head(a)
       IN [q |-> <<cur \div d>> \o high.q, r |-> cur % d]

PlusZero == [s |-> 0, m |-> <<>>, e |-> 0]
MinusZero == [s |-> 1, m |-> <<>>, e |-> 0]

\* The number (-1)^s * m * 2^e for m below 2^Precision.
Canon(s, m, e) ==
  IF m = <<>> THEN [s |-> s, m |-> <<>>, e |-> 0]
  ELSE [s |-> s, m |-> ShiftRight(m, TrailingZeros(m)), e |-> e + TrailingZeros(m)]

\* The number nearest to (-1)^s * m * 2^e, the even one of two nearest.
Round(s, m, e) ==
  IF BitLen(m) <= Precision THEN Canon(s, m, e)
  ELSE LET k == BitLen(m) - Precision
           kept == ShiftRight(m, k)
           sticky == ShiftLeft(ShiftRight(m, k - 1), k - 1) # m
           up == BitAt(m, k) = 1 /\ (sticky \/ BitAt(kept, 1) = 1)
       IN Canon(s, IF up THEN LimbAdd(kept, <<1>>, 0) ELSE kept, e + k)

IsZero(x) == x.m = <<>>

FNeg(x) == [x EXCEPT !.s = 1 - @]

\* x + y.
FAdd(x, y) ==
  IF IsZero(x) /\ IsZero(y) THEN (IF x.s = 1 /\ y.s = 1 THEN MinusZero ELSE PlusZero)
  ELSE IF IsZero(x) THEN y
  ELSE IF IsZero(y) THEN x
  ELSE LET e == IF x.e < y.e THEN x.e ELSE y.e
           mx == ShiftLeft(x.m, x.e - e)
           my == ShiftLeft(y.m, y.e - e)
       IN IF x.s = y.s THEN Round(x.s, LimbAdd(mx, my, 0), e)
          ELSE IF mx = my THEN PlusZero
          ELSE IF LimbLess(mx, my) THEN Round(y.s, LimbSub(my, mx), e)
          ELSE Round(x.s, LimbSub(mx, my), e)

\* x - y.
FSub(x, y) == FAdd(x, FNeg(y))

\* x * y.
FMul(x, y) ==
  Round((x.s + y.s) % 2, LimbMul(x.m, y.m), x.e + y.e)

\* x / y for y a one-digit integer times a power of two, not zero: the
\* quotient of the digits carried to at least two binary digits past the
\* precision, with one more below them that is set when the division
\* leaves a remainder.
FDiv(x, y) ==
  LET k == Precision + 2 + LimbBits
      d == DivMod(ShiftLeft(x.m, k), y.m[1])
      q == LimbAdd(ShiftLeft(Trim(d.q), 1), IF d.r = 0 THEN <<>> ELSE <<1>>, 0)
  IN Round((x.s + y.s) % 2, q, x.e - y.e - k - 1)

\* The number n, for an integer n.
FromInt(n) == IF n < 0 THEN Canon(1, LimbsOf(-n), 0) ELSE Canon(0, LimbsOf(n), 0)

\* The decimal literal n / scale, scale a power of ten up to 10^6.
Dec(n, scale) == FDiv(FromInt(n), FromInt(scale))

\* x === y: the two zeros are equal.
FEq(x, y) == x = y \/ (IsZero(x) /\ IsZero(y))

\* x < y.
FLess(x, y) ==
  LET d == FSub(x, y) IN ~IsZero(d) /\ d.s = 1

----------------------------------------------------------------------------
(* The state both pools work on, as one record *)

St == [pool |-> bpPool, active |-> bpActive, labelPool |-> bpLabelPool,
       ballCount |-> ballCount, balls |-> balls,
       lpPool |-> lpPool, lpActive |-> lpActive, loadedFont |-> lpLoadedFont,
       labelCount |-> labelCount, labels |-> labels, createCalls |-> createCalls]

Becomes(s) ==
  /\ bpPool' = s.pool
  /\ bpActive' = s.active
  /\ bpLabelPool' = s.labelPool
  /\ ballCount' = s.ballCount
  /\ balls' = s.balls
  /\ lpPool' = s.lpPool
  /\ lpActive' = s.lpActive
  /\ lpLoadedFont' = s.loadedFont
  /\ labelCount' = s.labelCount
  /\ labels' = s.labels
  /\ createCalls' = s.createCalls
  /\ UNCHANGED animVars

----------------------------------------------------------------------------
(* BallPool *)

\* createBall(): a new mesh (visible by default, white material, unit scale)
\* with its userData record.
createBall ==
  [visible |-> TRUE, position |-> Zero3, scale |-> One3,
   color |-> 16777215, emissive |-> 16777215, emissiveIntensity |-> 5,
   velocity |-> Zero3, isRotating |-> FALSE, rotationGroup |-> 0,
   rotationAxis |-> "", originalColor |-> 4367861, rotationAngle |-> 0,
   isGameObject |-> TRUE, isCurrentlyHighlighted |-> FALSE, isFlashing |-> FALSE,
   label |-> Null, animationProgress |-> 0, targetScale |-> 100,
   baseSpeed |-> Null, currentSpeedMultiplier |-> 100, isSpeedBursting |-> FALSE,
   speedBurstEndTime |-> 0, isColorSwapping |-> FALSE, targetColor |-> Null,
   colorSwapProgress |-> 0, colorSwapStartTime |-> 0, initialColor |-> Null,
   swapStartColor |-> Null]

\* The loop of initialize(maxSize), from iteration i on.
RECURSIVE InitializeFrom(_, _, _)
InitializeFrom(s, i, maxSize) ==
  IF i < maxSize
  THEN LET id == s.ballCount + 1
           ball == [createBall EXCEPT !.visible = FALSE]
       IN InitializeFrom([s EXCEPT !.ballCount = id,
                                   !.balls = Put(s.balls, id, ball),
                                   !.pool = Append(s.pool, id)],
                         i + 1, maxSize)
  ELSE s

\* Mutant of BpInitialize: the loop runs while i <= maxSize.
BpInitializeOneMore(s, maxSize) == InitializeFrom(s, 0, maxSize + 1)

\* initialize(maxSize)
BpInitialize(s, maxSize) == InitializeFrom(s, 0, maxSize)

\* Mutant of BpAcquire: the last free ball is read but not popped.
BpAcquireNoPop(s, color) ==
  LET reuse == Len(s.pool) > 0
      ball == IF reuse THEN s.pool[Len(s.pool)] ELSE s.ballCount + 1
      s1 == IF reuse THEN s
            ELSE [s EXCEPT !.ballCount = ball,
                           !.balls = Put(s.balls, ball, createBall)]
      b1 == [s1.balls[ball] EXCEPT !.visible = TRUE, !.color = color,
                                   !.originalColor = color]
  IN [st |-> [s1 EXCEPT !.balls = Put(s1.balls, ball, b1),
                        !.active = Append(s1.active, ball)],
      ball |-> ball]

\* Mutant of BpAcquire: the ball handed out is not pushed onto the active array.
BpAcquireNoPush(s, color) ==
  LET reuse == Len(s.pool) > 0
      ball == IF reuse THEN s.pool[Len(s.pool)] ELSE s.ballCount + 1
      s1 == IF reuse
            THEN [s EXCEPT !.pool = SubSeq(s.pool, 1, Len(s.pool) - 1)]
            ELSE [s EXCEPT !.ballCount = ball,
                           !.balls = Put(s.balls, ball, createBall)]
      b1 == [s1.balls[ball] EXCEPT !.visible = TRUE, !.color = color,
                                   !.originalColor = color]
  IN [st |-> [s1 EXCEPT !.balls = Put(s1.balls, ball, b1)],
      ball |-> ball]

\* acquire(color): the state after the call and the ball returned.
BpAcquire(s, color) ==
  LET reuse == Len(s.pool) > 0
      ball == IF reuse THEN s.pool[Len(s.pool)] ELSE s.ballCount + 1
      s1 == IF reuse
            THEN [s EXCEPT !.pool = SubSeq(s.pool, 1, Len(s.pool) - 1)]
            ELSE [s EXCEPT !.ballCount = ball,
                           !.balls = Put(s.balls, ball, createBall)]
      b1 == [s1.balls[ball] EXCEPT !.visible = TRUE, !.color = color,
                                   !.originalColor = color]
  IN [st |-> [s1 EXCEPT !.balls = Put(s1.balls, ball, b1),
                        !.active = Append(s1.active, ball)],
      ball |-> ball]

\* Mutant of LpRelease: the label is hidden but stays in the active array.
LpReleaseHideOnly(s, label) ==
  IF label = Null THEN s
  ELSE [s EXCEPT !.labels = [s.labels EXCEPT ![label[1]].visible = FALSE]]

\* Mutant of LpRelease: the label leaves the active array but stays visible.
LpReleaseNoHide(s, label) ==
  IF label = Null THEN s
  ELSE LET l == label[1]
           index == IndexOf(s.lpActive, l)
           act == IF index > 0 THEN Splice(s.lpActive, index) ELSE s.lpActive
       IN [s EXCEPT !.lpActive = act]

\* LabelPool.release(label); label is Null or <<identity>>.
LpRelease(s, label) ==
  IF label = Null THEN s
  ELSE LET l == label[1]
           index == IndexOf(s.lpActive, l)
           act == IF index > 0 THEN Splice(s.lpActive, index) ELSE s.lpActive
       IN [s EXCEPT !.lpActive = act,
                    !.labels = [s.labels EXCEPT ![l].visible = FALSE]]

\* release(ball), up to and including the label branch: the fields are
\* reset and an attached label is released and detached when a LabelPool is set.
ReleaseReset(s, ball) ==
  LET b0 == s.balls[ball]
      b1 == [b0 EXCEPT !.visible = FALSE, !.position = Zero3, !.velocity = Zero3,
                       !.isRotating = FALSE, !.isCurrentlyHighlighted = FALSE,
                       !.isFlashing = FALSE, !.rotationAngle = 0,
                       !.rotationGroup = 0, !.rotationAxis = "",
                       !.color = b0.originalColor, !.emissive = 16777215,
                       !.emissiveIntensity = 5, !.scale = One3,
                       !.baseSpeed = Null, !.currentSpeedMultiplier = 100,
                       !.isSpeedBursting = FALSE, !.speedBurstEndTime = 0,
                       !.isColorSwapping = FALSE, !.targetColor = Null,
                       !.colorSwapProgress = 0, !.colorSwapStartTime = 0,
                       !.initialColor = Null, !.swapStartColor = Null]
      detach == b1.label # Null /\ s.labelPool
      s1 == IF detach THEN LpRelease(s, b1.label) ELSE s
      b2 == IF detach THEN [b1 EXCEPT !.label = Null] ELSE b1
  IN [s1 EXCEPT !.balls = Put(s1.balls, ball, b2)]

\* Mutant of BpRelease: the membership test dropped, so splice(-1, 1) takes
\* the last active ball out when the ball is not in the active list.
BpReleaseUnchecked(s, ball) ==
  LET s2 == ReleaseReset(s, ball)
      index == IndexOf(s2.active, ball)
      at == IF index > 0 THEN index ELSE Len(s2.active)
  IN [s2 EXCEPT !.active = Splice(s2.active, at),
                !.pool = Append(s2.pool, ball)]

\* Mutant of BpRelease: the ball is pushed on the free list but not spliced
\* out of the active list.
BpReleaseKeepsActive(s, ball) ==
  LET s2 == ReleaseReset(s, ball)
      index == IndexOf(s2.active, ball)
  IN IF index > 0 THEN [s2 EXCEPT !.pool = Append(s2.pool, ball)] ELSE s2

\* release(ball)
BpRelease(s, ball) ==
  LET s2 == ReleaseReset(s, ball)
      index == IndexOf(s2.active, ball)
  IN IF index > 0
     THEN [s2 EXCEPT !.active = Splice(s2.active, index),
                     !.pool = Append(s2.pool, ball)]
     ELSE s2

\* activeCopy.forEach(ball => this.release(ball)), from element i on.
RECURSIVE ReleaseEach(_, _, _)
ReleaseEach(s, copy, i) ==
  IF i <= Len(copy) THEN ReleaseEach(BpRelease(s, copy[i]), copy, i + 1) ELSE s

\* this.active.forEach(ball => this.release(ball)) on the live array, from
\* index i on: forEach reads the array's length and element at every step.
RECURSIVE ReleaseEachLive(_, _)
ReleaseEachLive(s, i) ==
  IF i <= Len(s.active) THEN ReleaseEachLive(BpRelease(s, s.active[i]), i + 1) ELSE s

\* Mutant of BpReleaseAll: no copy is taken.
BpReleaseAllLive(s) == ReleaseEachLive(s, 1)

\* releaseAll(): iterates a copy of the active list taken before the first release.
BpReleaseAll(s) == ReleaseEach(s, s.active, 1)

\* setLabelPool(labelPool)
BpSetLabelPool(s, present) == [s EXCEPT !.labelPool = present]

----------------------------------------------------------------------------
(* LabelPool *)

\* number.toString()
KeyOf(number) == ToString(number)

\* setFont(font)
LpSetFont(s, present) == [s EXCEPT !.loadedFont = present]

\* createLabel(number): a new, hidden label group; the state with the object
\* constructed and the call counted.
LpCreateLabel(s, number) ==
  LET id == s.labelCount + 1
  IN [st |-> [s EXCEPT !.labelCount = id,
                       !.labels = Put(s.labels, id,
                                      [visible |-> FALSE, number |-> number, clonedFrom |-> 0]),
                       !.createCalls = [s.createCalls EXCEPT ![number] = @ + 1]],
      label |-> id]

\* Mutant of LpAcquire: the template built on a miss is not stored in the pool.
LpAcquireNoCache(s, number) ==
  IF ~s.loadedFont THEN [st |-> s, label |-> Null]
  ELSE LET key == KeyOf(number)
           hit == key \in DOMAIN s.lpPool
           made == LpCreateLabel(s, number)
           template == IF hit THEN s.lpPool[key] ELSE made.label
           s1 == IF hit THEN s ELSE made.st
           clone == s1.labelCount + 1
           cl == [s1.labels[template] EXCEPT !.clonedFrom = template, !.visible = TRUE]
       IN [st |-> [s1 EXCEPT !.labelCount = clone,
                             !.labels = Put(s1.labels, clone, cl),
                             !.lpActive = Append(s1.lpActive, clone)],
           label |-> Some(clone)]

\* Mutant of LpAcquire: the font is not tested.
LpAcquireNoFontCheck(s, number) ==
  LET key == KeyOf(number)
      hit == key \in DOMAIN s.lpPool
      made == LpCreateLabel(s, number)
      template == IF hit THEN s.lpPool[key] ELSE made.label
      s1 == IF hit THEN s ELSE [made.st EXCEPT !.lpPool = Put(s.lpPool, key, template)]
      clone == s1.labelCount + 1
      cl == [s1.labels[template] EXCEPT !.clonedFrom = template, !.visible = TRUE]
  IN [st |-> [s1 EXCEPT !.labelCount = clone,
                        !.labels = Put(s1.labels, clone, cl),
                        !.lpActive = Append(s1.lpActive, clone)],
      label |-> Some(clone)]

\* acquire(number): the state after the call and the value returned (Null or
\* <<clone>>).
LpAcquire(s, number) ==
  IF ~s.loadedFont THEN [st |-> s, label |-> Null]
  ELSE LET key == KeyOf(number)
           hit == key \in DOMAIN s.lpPool
           made == LpCreateLabel(s, number)
           template == IF hit THEN s.lpPool[key] ELSE made.label
           s1 == IF hit THEN s ELSE [made.st EXCEPT !.lpPool = Put(s.lpPool, key, template)]
           clone == s1.labelCount + 1
           cl == [s1.labels[template] EXCEPT !.clonedFrom = template, !.visible = TRUE]
       IN [st |-> [s1 EXCEPT !.labelCount = clone,
                             !.labels = Put(s1.labels, clone, cl),
                             !.lpActive = Append(s1.lpActive, clone)],
           label |-> Some(clone)]

\* releaseAll(): hides every active label and replaces the active array.
LpReleaseAll(s) ==
  [s EXCEPT !.labels = [l \in DOMAIN s.labels |->
                          IF l \in Range(s.lpActive)
                          THEN [s.labels[l] EXCEPT !.visible = FALSE]
                          ELSE s.labels[l]],
            !.lpActive = <<>>]

----------------------------------------------------------------------------
(* The game code around the pools *)

\* The clones handed out so far (the identities a caller can hold).
Clones == {l \in DOMAIN labels : labels[l].clonedFrom # 0}

\* ball.add(label); ball.userData.label = label
AttachLabel(s, ball, l) ==
  [s EXCEPT !.balls = [s.balls EXCEPT ![ball].label = Some(l)]]

\* The game writes the gameplay state of a ball it holds: motion, rotation,
\* highlight, speed burst, colour swap, scale, target scale.
GameWrite(s, ball) ==
  [s EXCEPT !.balls = [s.balls EXCEPT ![ball] =
     [@ EXCEPT !.position = <<1, 2, 3>>, !.velocity = <<1, 1, 1>>,
               !.isRotating = TRUE, !.rotationGroup = 1, !.rotationAxis = "x",
               !.rotationAngle = 1, !.isCurrentlyHighlighted = TRUE,
               !.isFlashing = TRUE, !.scale = <<120, 120, 120>>,
               !.color = 1, !.emissive = 16711680, !.emissiveIntensity = 50,
               !.targetScale = 120,
               !.baseSpeed = Some(2), !.currentSpeedMultiplier = 200,
               !.isSpeedBursting = TRUE, !.speedBurstEndTime = 9,
               !.isColorSwapping = TRUE, !.targetColor = Some(1),
               !.colorSwapProgress = 50, !.colorSwapStartTime = 9,
               !.initialColor = Some(2), !.swapStartColor = Some(3)]]]

\* animateBallSpawn(ball) run to its last frame: progress 1, scale (1,1,1),
\* position.y back at its start.
SpawnFinished(s, ball) ==
  [s EXCEPT !.balls = [s.balls EXCEPT ![ball] =
     [@ EXCEPT !.scale = One3, !.animationProgress = 100]]]

----------------------------------------------------------------------------
(* Operations as steps; maxBalls and maxObjs bound the exploration *)

NoScenario == [phase |-> "none", M |-> 0, got |-> <<>>]

Init ==
  /\ bpPool = <<>>
  /\ bpActive = <<>>
  /\ bpLabelPool = FALSE
  /\ ballCount = 0
  /\ balls = <<>>
  /\ lpPool = [k \in {} |-> 0]
  /\ lpActive = <<>>
  /\ lpLoadedFont = FALSE
  /\ labelCount = 0
  /\ labels = <<>>
  /\ createCalls = [n \in Numbers |-> 0]
  /\ sc = NoScenario
  /\ activeAnimations = <<>>
  /\ isRunning = FALSE
  /\ animationId = Null
  /\ rafPending = <<>>
  /\ now = 0
  /\ anims = <<>>
  /\ calls = <<>>
  /\ fx = NoEffects

Initialize(maxBalls) ==
  \E maxSize \in 0..maxBalls :
    /\ ballCount + maxSize <= maxBalls
    /\ Becomes(BpInitialize(St, maxSize))
    /\ UNCHANGED sc

Acquire(maxBalls) ==
  \E color \in Colors :
    /\ Len(bpPool) > 0 \/ ballCount < maxBalls
    /\ Becomes(BpAcquire(St, color).st)
    /\ UNCHANGED sc

Release ==
  \E ball \in 1..ballCount :
    /\ Becomes(BpRelease(St, ball))
    /\ UNCHANGED sc

ReleaseAll ==
  /\ Becomes(BpReleaseAll(St))
  /\ UNCHANGED sc

SetLabelPool ==
  \E present \in BOOLEAN :
    /\ Becomes(BpSetLabelPool(St, present))
    /\ UNCHANGED sc

\* fonts: the values handed to setFont (TRUE a font, FALSE null).
SetFont(fonts) ==
  \E present \in fonts :
    /\ Becomes(LpSetFont(St, present))
    /\ UNCHANGED sc

\* A call constructs a clone, and a template too on a cache miss.
LabelAcquire(maxObjs) ==
  \E number \in Numbers :
    /\ labelCount + (IF KeyOf(number) \in DOMAIN lpPool THEN 1 ELSE 2) <= maxObjs
    /\ Becomes(LpAcquire(St, number).st)
    /\ UNCHANGED sc

LabelRelease ==
  \E label \in {Null} \cup {Some(l) : l \in Clones} :
    /\ Becomes(LpRelease(St, label))
    /\ UNCHANGED sc

LabelReleaseAll ==
  /\ Becomes(LpReleaseAll(St))
  /\ UNCHANGED sc

\* The game attaches a label it got from LabelPool.acquire, still active and
\* on no ball, to an active ball that has none.
Attach ==
  \E ball \in Range(bpActive), l \in Range(lpActive) :
    /\ balls[ball].label = Null
    /\ \A b \in DOMAIN balls : balls[b].label # Some(l)
    /\ Becomes(AttachLabel(St, ball, l))
    /\ UNCHANGED sc

Write ==
  \E ball \in Range(bpActive) :
    /\ Becomes(GameWrite(St, ball))
    /\ UNCHANGED sc

Spawn ==
  \E ball \in Range(bpActive) :
    /\ Becomes(SpawnFinished(St, ball))
    /\ UNCHANGED sc

----------------------------------------------------------------------------
(* Spec: any sequence of calls on the two pools, labels attached to balls *)

Next ==
  \/ Initialize(MaxBalls)
  \/ Acquire(MaxBalls)
  \/ Release
  \/ ReleaseAll
  \/ SetLabelPool
  \/ SetFont({TRUE})
  \/ LabelAcquire(MaxLabelObjs)
  \/ LabelRelease
  \/ LabelReleaseAll
  \/ Attach

Spec == Init /\ [][Next]_vars

(* SpecFields: the BallPool alone, the game writing the fields of active balls *)

NextFields ==
  \/ Initialize(FMaxBalls)
  \/ Acquire(FMaxBalls)
  \/ Spawn
  \/ Write
  \/ Release
  \/ ReleaseAll

SpecFields == Init /\ [][NextFields]_vars

(* SpecLabels: the LabelPool alone *)

NextLabels ==
  \/ SetFont(BOOLEAN)
  \/ LabelAcquire(LMaxLabelObjs)
  \/ LabelRelease
  \/ LabelReleaseAll

SpecLabels == Init /\ [][NextLabels]_vars

(* SpecScenario: a new pool, initialize(M), K acquires, then releases *)

ScInitialize ==
  /\ sc.phase = "none"
  /\ \E maxSize \in 0..ScMaxInit :
       /\ Becomes(BpInitialize(St, maxSize))
       /\ sc' = [phase |-> "acquiring", M |-> maxSize, got |-> <<>>]

\* got records, per acquire, the ball returned and how many balls the call built.
ScAcquire ==
  /\ sc.phase = "acquiring"
  /\ Len(sc.got) < ScMaxAcquire
  /\ \E color \in Colors :
       LET a == BpAcquire(St, color)
       IN /\ Becomes(a.st)
          /\ sc' = [sc EXCEPT !.got = Append(@, [ball |-> a.ball,
                                                 built |-> a.st.ballCount - ballCount])]

ScRelease ==
  /\ sc.phase \in {"acquiring", "releasing"}
  /\ \E ball \in Range(bpActive) :
       /\ Becomes(BpRelease(St, ball))
       /\ sc' = [sc EXCEPT !.phase = "releasing"]

ScReleaseAll ==
  /\ sc.phase \in {"acquiring", "releasing"}
  /\ bpActive # <<>>
  /\ Becomes(BpReleaseAll(St))
  /\ sc' = [sc EXCEPT !.phase = "releasing"]

NextScenario ==
  \/ ScInitialize
  \/ ScAcquire
  \/ ScRelease
  \/ ScReleaseAll

SpecScenario == Init /\ [][NextScenario]_vars

----------------------------------------------------------------------------
(* AnimationManager (src/js/animations.js) *)

\* Math.min(elapsed / duration, 1): the fraction n/d with d > 0, or NaN
\* (0 / 0), or -Infinity (a negative elapsed time over 0).
One == [k |-> "q", n |-> 1, d |-> 1]
NaN == [k |-> "nan", n |-> 0, d |-> 1]
NegInfinity == [k |-> "neginf", n |-> -1, d |-> 1]

Progress(elapsed, duration) ==
  IF duration > 0
  THEN IF elapsed >= duration THEN One
       ELSE [k |-> "q", n |-> elapsed, d |-> duration]
  ELSE IF duration = 0
  THEN IF elapsed > 0 THEN One ELSE IF elapsed = 0 THEN NaN ELSE NegInfinity
  ELSE IF elapsed <= duration THEN One
       ELSE [k |-> "q", n |-> -elapsed, d |-> -duration]

\* progress >= 1 (false for NaN)
AtLeastOne(p) == p.k = "q" /\ p.n >= p.d

\* 0 <= progress <= 1
InUnit(p) == p.k = "q" /\ 0 <= p.n /\ p.n <= p.d

\* What the callbacks of an animation do to the scheduler. One call at most,
\* made by the update function (at = "update") at its first invocation or by
\* the completion callback (at = "complete"): cancel() on the handle of
\* animation `target`, stopAll(), or add() of a follow-up animation. oc tells
\* whether a completion callback was passed to add.
NoCall == [act |-> "none", target |-> 0, at |-> "update"]

PlainKinds == {[call |-> NoCall, oc |-> b, effect |-> NoEffect] : b \in BOOLEAN}

CancelKinds(maxAnims) ==
  {[call |-> [act |-> "cancel", target |-> t, at |-> w], oc |-> TRUE, effect |-> NoEffect] :
     t \in 1..maxAnims, w \in {"update", "complete"}}

ReentrantKinds ==
  {[call |-> [act |-> a, target |-> 0, at |-> w], oc |-> TRUE, effect |-> NoEffect] :
     a \in {"stopAll", "add"}, w \in {"update", "complete"}}

\* The scheduler and the browser's frame requests as one record. rafCount is
\* the last request identity given out and ticks the number of update() runs
\* started, both counted within the scheduler call or refresh being executed.
Am ==
  [activeAnimations |-> activeAnimations, isRunning |-> isRunning,
   animationId |-> animationId, rafPending |-> rafPending, now |-> now,
   anims |-> anims, calls |-> <<>>, fx |-> fx, rafCount |-> Len(rafPending),
   ticks |-> 0]

\* The variables become the record. Between scheduler calls the pending frame
\* requests are named 1.. in the order they were made, and a cancellation is
\* older than every tick to come.
AmBecomes(am) ==
  /\ activeAnimations' = am.activeAnimations
  /\ isRunning' = am.isRunning
  /\ rafPending' = [i \in 1..Len(am.rafPending) |-> i]
  /\ animationId' = IF am.animationId = Null THEN Null
                    ELSE Some(IndexOf(am.rafPending, am.animationId[1]))
  /\ now' = am.now
  /\ anims' = [a \in DOMAIN am.anims |-> [am.anims[a] EXCEPT !.cancelSerial = 0]]
  /\ calls' = am.calls
  /\ fx' = am.fx
  /\ UNCHANGED poolVars

\* The animation object add() builds, with the history kept about it.
NewAnimation(startTime, duration, kind) ==
  [startTime |-> startTime, duration |-> duration, onComplete |-> kind.oc,
   cancelled |-> FALSE, call |-> kind.call, called |-> FALSE,
   effect |-> kind.effect,
   updated |-> FALSE, ones |-> 0, overdue |-> FALSE, completes |-> 0,
   cancelSerial |-> 0, lateCall |-> FALSE, refreshed |-> FALSE,
   earlyCancel |-> FALSE, cleared |-> FALSE, inTick |-> FALSE]

RECURSIVE AmUpdate(_)
RECURSIVE AmFilter(_, _, _, _, _)
RECURSIVE AmInvoke(_, _, _, _, _)
RECURSIVE AmAdd(_, _, _)

\* handle.cancel() of animation a; a handle not yet assigned does nothing.
AmCancel(am, a) ==
  IF a \notin DOMAIN am.anims THEN am
  ELSE [am EXCEPT !.anims[a].cancelled = TRUE,
                  !.anims[a].cancelSerial = IF am.anims[a].cancelled THEN @ ELSE am.ticks,
                  !.anims[a].earlyCancel = @ \/ ~am.anims[a].refreshed]

\* stopAll()
AmStopAll(am) ==
  [am EXCEPT !.activeAnimations = <<>>,
             !.rafPending = IF am.animationId = Null THEN @
                            ELSE SelectSeq(@, LAMBDA r : r # am.animationId[1]),
             !.animationId = Null,
             !.isRunning = FALSE,
             !.anims = [a \in DOMAIN @ |->
                          IF a \in Range(am.activeAnimations)
                          THEN [@[a] EXCEPT !.cleared = TRUE] ELSE @[a]]]

\* start()
AmStart(am) ==
  IF am.isRunning THEN am ELSE AmUpdate([am EXCEPT !.isRunning = TRUE])

\* Mutant of AmAdd: the animation is put in front of the array (unshift).
AmAddInFront(am, duration, kind) ==
  LET a == Len(am.anims) + 1
      am1 == [am EXCEPT !.anims = Append(@, NewAnimation(am.now, duration, kind)),
                        !.activeAnimations = <<a>> \o @]
  IN IF ~am1.isRunning THEN AmStart(am1) ELSE am1

\* add(updateFn, duration, onComplete); the handle is the new animation's
\* identity, Len(am.anims) + 1.
AmAdd(am, duration, kind) ==
  LET a == Len(am.anims) + 1
      new == [NewAnimation(am.now, duration, kind) EXCEPT !.inTick = am.ticks > 0]
      am1 == [am EXCEPT !.anims = Append(@, new),
                        !.activeAnimations = Append(@, a)]
  IN IF ~am1.isRunning THEN AmStart(am1) ELSE am1

\* pulseBall: 1.0 + Math.sin(cycle * Math.PI * 2) * intensity, in hundredths,
\* for the default intensity 0.2 and cycle = (elapsed % 1000) / 1000 at the
\* quarters of the one-second cycle, where the sine is 0, 1, 0 and -1 (the
\* double nearest to sin(pi) times 0.2 vanishes when added to 1.0).
PulseScale(elapsed) ==
  LET ms == elapsed % PulseCycle
  IN CASE ms = 0 -> Num(100)
       [] ms = 250 -> Num(120)
       [] ms = 500 -> Num(100)
       [] ms = 750 -> Num(80)

\* Mutant of PulseUpdate: the highlight flag is not tested.
PulseUpdateIgnoresFlag(am, a) ==
  [am EXCEPT !.fx.ball.scale = PulseScale(am.now - am.anims[a].startTime)]

\* The update function pulseBall registers.
PulseUpdate(am, a) ==
  IF ~am.fx.ball.isCurrentlyHighlighted THEN am
  ELSE [am EXCEPT !.fx.ball.scale = PulseScale(am.now - am.anims[a].startTime)]

\* The completion callback createParticleBurst registers: the primitive of
\* animation a leaves the scene, its geometry and its material are disposed.
BurstComplete(am, a) ==
  [am EXCEPT !.fx.scene = @ \ {a},
             !.fx.disposed = @ \o <<[of |-> a, what |-> "geometry"],
                                    [of |-> a, what |-> "material"]>>]

\* startScale + (1.2 - startScale) * Easing.easeOutElastic(progress):
\* easeOutElastic(0) is 0 and x + y * 0 is x; any other value is kept as the
\* expression it is.
Bounce(startScale, p) ==
  IF p = [k |-> "q", n |-> 0, d |-> p.d] THEN startScale
  ELSE <<"bounce", startScale, p>>

\* 0.3 * (1 - progress) in hundredths, as an expression where it is not a
\* whole number of them.
Glow(p) ==
  IF p.k = "q" /\ (30 * (p.d - p.n)) % p.d = 0
  THEN Num((30 * (p.d - p.n)) \div p.d)
  ELSE <<"glow", p>>

\* original + Math.sin(progress * rate) * 0.3 * (1 - progress): the offset
\* is 0 at progress 0 and at progress 1.
Shake(axis, original, p) ==
  IF p = One \/ p = [k |-> "q", n |-> 0, d |-> p.d] THEN original
  ELSE <<axis, original, p>>

\* The update function animateBallSelection registers.
SelectionUpdate(am, a, p) ==
  LET ef == am.anims[a].effect
  IN IF ef.isCorrect
     THEN [am EXCEPT !.fx.ball.scale = Bounce(ef.startScale, p),
                     !.fx.ball.emissiveIntensity = Glow(p)]
     ELSE [am EXCEPT !.fx.ball.position =
                        <<Shake("shakeX", ef.originalPosition[1], p),
                          Shake("shakeY", ef.originalPosition[2], p)>>]

\* The completion callback animateBallSelection registers:
\* ball.scale.set(1, 1, 1), ball.position.copy(originalPosition) and
\* emissiveIntensity = 0.05.
SelectionComplete(am, a) ==
  [am EXCEPT !.fx.ball.scale = Num(100),
             !.fx.ball.position = am.anims[a].effect.originalPosition,
             !.fx.ball.emissiveIntensity = Num(5)]

\* The ball as the completion callback of animation a left it.
AtComplete(am, a) ==
  [am EXCEPT !.anims[a].effect.atComplete =
     Some([scale |-> am.fx.ball.scale, position |-> am.fx.ball.position,
           emissiveIntensity |-> am.fx.ball.emissiveIntensity])]

\* What callback fn of animation a, invoked with progress p, writes. The
\* update function of a particle burst moves and fades the particles of its
\* primitive, which are not part of fx.
Effect(am, a, fn, p) ==
  LET name == am.anims[a].effect.name
  IN CASE name = "pulse" /\ fn = "update" -> PulseUpdate(am, a)
       [] name = "burst" /\ fn = "complete" -> BurstComplete(am, a)
       [] name = "selection" /\ fn = "update" -> SelectionUpdate(am, a, p)
       [] name = "selection" /\ fn = "complete" ->
            AtComplete(SelectionComplete(am, a), a)
       [] OTHER -> am

\* An entry of the history of invocations: in tick t, callback fn ("update"
\* or "complete") of animation a was invoked with progress p, or (fn "cancel")
\* a callback of animation by cancelled animation a, which was not cancelled
\* before; live tells whether a was in activeAnimations then.
Invocation(t, a, fn, p, by, live) ==
  [tick |-> t, anim |-> a, fn |-> fn, progress |-> p, by |-> by, live |-> live]

\* One callback of animation a is invoked in tick t: fn is "update" or
\* "complete". The invocation is recorded and the callback makes its call.
AmInvoke(am, a, fn, p, t) ==
  LET an == am.anims[a]
      isUpdate == fn = "update"
      am0 == Effect(am, a, fn, p)
      am1 == [am0 EXCEPT
                !.calls = Append(@, Invocation(t, a, fn, p, a, TRUE)),
                !.anims[a].updated = @ \/ isUpdate,
                !.anims[a].ones = IF isUpdate /\ p = One THEN @ + 1 ELSE @,
                !.anims[a].overdue = @ \/ (/\ isUpdate
                                           /\ am.now - an.startTime >= an.duration
                                           /\ p # One),
                !.anims[a].completes = IF fn = "complete" THEN @ + 1 ELSE @,
                !.anims[a].lateCall = @ \/ (an.cancelled /\ t > an.cancelSerial)]
      b == an.call.target
      effective == b \in DOMAIN am1.anims /\ ~am1.anims[b].cancelled
  IN IF an.call.at # fn \/ an.called \/ an.call.act = "none" THEN am1
     ELSE LET am2 == [am1 EXCEPT !.anims[a].called = TRUE]
          IN CASE an.call.act = "cancel" ->
                    AmCancel(IF effective
                             THEN [am2 EXCEPT !.calls = Append(@,
                                     Invocation(t, b, "cancel", p, a,
                                                b \in Range(am2.activeAnimations)))]
                             ELSE am2, b)
               [] an.call.act = "stopAll" -> AmStopAll(am2)
               [] an.call.act = "add" -> AmAdd(am2, an.duration, [call |-> NoCall, oc |-> TRUE, effect |-> NoEffect])

\* Mutant of AmFilter: the cancelled flag is not tested.
RECURSIVE AmFilterIgnoresCancelled(_, _, _, _, _)
AmFilterIgnoresCancelled(am, array, k, kept, t) ==
  IF k > Len(array) THEN [am |-> am, kept |-> kept]
  ELSE LET a == array[k]
           elapsed == am.now - am.anims[a].startTime
           progress == Progress(elapsed, am.anims[a].duration)
           am1 == AmInvoke(am, a, "update", progress, t)
           am2 == IF AtLeastOne(progress) /\ am1.anims[a].onComplete
                  THEN AmInvoke(am1, a, "complete", progress, t)
                  ELSE am1
       IN AmFilterIgnoresCancelled(am2, array, k + 1,
                                   IF AtLeastOne(progress) THEN kept ELSE Append(kept, a), t)

\* The callback of activeAnimations.filter in update(), from element k of the
\* array the filter was started on: kept collects the animations it keeps.
AmFilter(am, array, k, kept, t) ==
  IF k > Len(array) THEN [am |-> am, kept |-> kept]
  ELSE LET a == array[k]
       IN IF am.anims[a].cancelled THEN AmFilter(am, array, k + 1, kept, t)
          ELSE LET elapsed == am.now - am.anims[a].startTime
                   progress == Progress(elapsed, am.anims[a].duration)
                   am1 == AmInvoke(am, a, "update", progress, t)
                   am2 == IF AtLeastOne(progress) /\ am1.anims[a].onComplete
                          THEN AmInvoke(am1, a, "complete", progress, t)
                          ELSE am1
               IN AmFilter(am2, array, k + 1,
                           IF AtLeastOne(progress) THEN kept ELSE Append(kept, a), t)

\* Mutant of AmUpdate: the animations found cancelled after the filter are
\* dropped from its result as well.
AmUpdateDropsCancelled(am) ==
  LET t == am.ticks + 1
      f == AmFilter([am EXCEPT !.ticks = t], am.activeAnimations, 1, <<>>, t)
      kept == SelectSeq(f.kept, LAMBDA a : ~f.am.anims[a].cancelled)
      am1 == [f.am EXCEPT !.activeAnimations = kept]
  IN IF Len(kept) > 0
     THEN [am1 EXCEPT !.rafCount = @ + 1,
                      !.rafPending = Append(@, am1.rafCount + 1),
                      !.animationId = Some(am1.rafCount + 1)]
     ELSE [am1 EXCEPT !.isRunning = FALSE, !.animationId = Null]

\* update(): one tick.
AmUpdate(am) ==
  LET t == am.ticks + 1
      f == AmFilter([am EXCEPT !.ticks = t], am.activeAnimations, 1, <<>>, t)
      am1 == [f.am EXCEPT !.activeAnimations = f.kept]
  IN IF Len(f.kept) > 0
     THEN [am1 EXCEPT !.rafCount = @ + 1,
                      !.rafPending = Append(@, am1.rafCount + 1),
                      !.animationId = Some(am1.rafCount + 1)]
     ELSE [am1 EXCEPT !.isRunning = FALSE, !.animationId = Null]

\* The browser runs the frame requests that were pending when the display
\* refresh began, oldest first, unless cancelled meanwhile.
RECURSIVE RunFrame(_, _)
RunFrame(am, due) ==
  IF due = <<>> THEN am
  ELSE IF Head(due) \in Range(am.rafPending)
  THEN RunFrame(AmUpdate([am EXCEPT !.rafPending =
                                       SelectSeq(@, LAMBDA r : r # Head(due))]),
                Tail(due))
  ELSE RunFrame(am, Tail(due))

\* Animations registered so far plus the follow-ups callbacks may still add.
Reserved ==
  Len(anims) + Cardinality({a \in DOMAIN anims :
                              anims[a].call.act = "add" /\ ~anims[a].called})

\* A caller outside the scheduler registers an animation.
Add(maxAnims, durations, kinds) ==
  \E duration \in durations, kind \in kinds :
    /\ Reserved + (IF kind.call.act = "add" THEN 2 ELSE 1) <= maxAnims
    /\ AmBecomes(AmAdd(Am, duration, kind))

\* A caller outside the scheduler cancels through a handle it holds.
Cancel ==
  \E a \in DOMAIN anims :
    /\ ~anims[a].cancelled
    /\ AmBecomes(AmCancel(Am, a))

\* A caller outside the scheduler calls stopAll().
StopAll == AmBecomes(AmStopAll(Am))

\* The scheduler and its clock at a display refresh dt after now.
AtRefresh(dt) ==
  [Am EXCEPT !.now = now + dt,
             !.anims = [a \in DOMAIN @ |-> [@[a] EXCEPT !.refreshed = TRUE]]]

\* A display refresh: the clock has advanced by one of steps and the pending
\* frame requests run.
RefreshBy(maxTime, steps) ==
  \E dt \in steps :
    /\ now + dt <= maxTime
    /\ AmBecomes(RunFrame(AtRefresh(dt), rafPending))

Refresh(maxTime) == RefreshBy(maxTime, FrameSteps)

\* Game code writes a field of the ball's userData.
SetHighlighted(b) ==
  /\ fx.ball.isCurrentlyHighlighted # b
  /\ AmBecomes([Am EXCEPT !.fx.ball.isCurrentlyHighlighted = b])

\* pulseBall(ball) with the default intensity.
PulseBall(maxAnims) ==
  /\ Reserved + 1 <= maxAnims
  /\ AmBecomes(AmAdd(Am, MaxSafeInteger,
                     [call |-> NoCall, oc |-> FALSE,
                      effect |-> [NoEffect EXCEPT !.name = "pulse"]]))

\* createParticleBurst(position, color, scene): the primitive, named by the
\* animation to be registered, is added to the scene, then add() is called.
ParticleBurst(am) ==
  AmAdd([am EXCEPT !.fx.scene = @ \cup {Len(am.anims) + 1}], BurstDuration,
        [call |-> NoCall, oc |-> TRUE, effect |-> [NoEffect EXCEPT !.name = "burst"]])

CreateParticleBurst(maxAnims) ==
  /\ Reserved + 1 <= maxAnims
  /\ AmBecomes(ParticleBurst(Am))

\* animateBallSelection(ball, isCorrect, scene).
BallSelection(am, isCorrect) ==
  AmAdd(IF isCorrect THEN ParticleBurst(am) ELSE am, SelectionDuration,
        [call |-> NoCall, oc |-> TRUE,
         effect |-> [NoEffect EXCEPT
                       !.name = "selection",
                       !.isCorrect = isCorrect,
                       !.startScale = am.fx.ball.scale,
                       !.originalPosition = am.fx.ball.position,
                       !.emissiveAtStart = am.fx.ball.emissiveIntensity]])

AnimateBallSelection(maxAnims) ==
  \E isCorrect \in BOOLEAN :
    /\ Reserved + (IF isCorrect THEN 2 ELSE 1) <= maxAnims
    /\ AmBecomes(BallSelection(Am, isCorrect))

\* Selection feedback on a ball that game code also highlights and pulses.
NextSelection ==
  \/ AnimateBallSelection(SMaxAnims)
  \/ PulseBall(SMaxAnims)
  \/ \E b \in BOOLEAN : SetHighlighted(b)
  \/ Cancel
  \/ RefreshBy(SMaxTime, PulseSteps)

SpecSelection == Init /\ [][NextSelection]_vars

\* Overlapping effects on one ball: selection feedback started while other
\* selection feedback or a pulse is running.
NextOverlap ==
  \/ AnimateBallSelection(WMaxAnims)
  \/ PulseBall(WMaxAnims)
  \/ \E b \in BOOLEAN : SetHighlighted(b)
  \/ RefreshBy(WMaxTime, PulseSteps)

SpecOverlap == Init /\ [][NextOverlap]_vars

\* BallPool.release on the ball of the effects: what it writes to the fields
\* the effects write, and the ball goes to the free list.
ReleasedBall(ball) ==
  [ball EXCEPT !.position = <<Num(0), Num(0)>>,
               !.isCurrentlyHighlighted = FALSE,
               !.emissiveIntensity = Num(5),
               !.scale = Num(100),
               !.free = TRUE]

\* BallPool.acquire pops the ball from the free list; it writes none of the
\* fields the effects write.
AcquiredBall(ball) == [ball EXCEPT !.free = FALSE]

ReleaseBall ==
  /\ ~fx.ball.free
  /\ AmBecomes([Am EXCEPT !.fx.ball = ReleasedBall(@)])

AcquireBall ==
  /\ fx.ball.free
  /\ AmBecomes([Am EXCEPT !.fx.ball = AcquiredBall(@)])

\* Effects started on a ball the game holds, which it then releases to the
\* pool and acquires again.
NextFreed ==
  \/ ~fx.ball.free /\ AnimateBallSelection(FrMaxAnims)
  \/ ~fx.ball.free /\ PulseBall(FrMaxAnims)
  \/ ~fx.ball.free /\ \E b \in BOOLEAN : SetHighlighted(b)
  \/ ReleaseBall
  \/ AcquireBall
  \/ Cancel
  \/ RefreshBy(FrMaxTime, PulseSteps)

SpecFreed == Init /\ [][NextFreed]_vars

\* stateConfigs of animateLightForGameState.
StateConfigs ==
  [idle |-> [hemisphere |-> Dec(6, 10), directional |-> Dec(5, 10),
             rim |-> Dec(3, 10), fill |-> Dec(2, 10), ambient |-> Dec(4, 10)],
   tracking |-> [hemisphere |-> Dec(7, 10), directional |-> Dec(6, 10),
                 rim |-> Dec(4, 10), fill |-> Dec(3, 10), ambient |-> Dec(5, 10)],
   selection |-> [hemisphere |-> Dec(8, 10), directional |-> Dec(7, 10),
                  rim |-> Dec(5, 10), fill |-> Dec(3, 10), ambient |-> Dec(6, 10)],
   success |-> [hemisphere |-> Dec(10, 10), directional |-> Dec(8, 10),
                rim |-> Dec(6, 10), fill |-> Dec(4, 10), ambient |-> Dec(7, 10)],
   error |-> [hemisphere |-> Dec(4, 10), directional |-> Dec(4, 10),
              rim |-> Dec(2, 10), fill |-> Dec(1, 10), ambient |-> Dec(3, 10)]]

Moods == DOMAIN StateConfigs

\* stateConfigs[state] || stateConfigs.idle
TargetConfig(state) ==
  IF state \in Moods THEN StateConfigs[state] ELSE StateConfigs.idle

\* Math.pow(x, 2), exact for the arguments it is given here.
Square(x) == FMul(x, x)

\* The ease function of animateLightForGameState.
LightEase(progress) ==
  IF FLess(progress, Dec(5, 10))
  THEN FMul(FMul(FromInt(2), progress), progress)
  ELSE FSub(FromInt(1),
            FDiv(Square(FAdd(FMul(FromInt(-2), progress), FromInt(2))), FromInt(2)))

\* Math.min(elapsed / duration, 1)
LightProgress(elapsed) ==
  LET p == FDiv(FromInt(elapsed), FromInt(LightDuration))
  IN IF FLess(FromInt(1), p) THEN FromInt(1) ELSE p

\* animate() of the lighting transition loop: every light the lights object
\* has is written, and the next frame is requested while progress is below
\* 1. fx.lightLoop holds the transitions with a frame requested, in the
\* order of their requests.
LightAnimate(am, loop) ==
  LET progress == LightProgress(am.now - loop.startTime)
      eased == LightEase(progress)
      target == TargetConfig(loop.state)
  IN [am EXCEPT
        !.fx.lights = [k \in LightKeys |->
           IF @[k] = Null THEN Null
           ELSE Some(FAdd(loop.initialIntensities[k],
                          FMul(FSub(target[k], loop.initialIntensities[k]), eased)))],
        !.fx.lightLoop = IF FLess(progress, FromInt(1)) THEN Append(@, loop) ELSE @]

\* The frames of the lighting transitions in due run in the order they were
\* requested.
RECURSIVE LightFrames(_, _)
LightFrames(am, due) ==
  IF due = <<>> THEN am ELSE LightFrames(LightAnimate(am, Head(due)), Tail(due))

\* The frames requested by lighting transitions at a display refresh.
LightFrame(am) == LightFrames([am EXCEPT !.fx.lightLoop = <<>>], am.fx.lightLoop)

\* animateLightForGameState(lights, state); fx.mood records the state asked
\* for and whether an earlier transition still had a frame requested.
LightForGameState(am, state) ==
  LightAnimate([am EXCEPT !.fx.mood = Some([state |-> state,
                                            overlaps |-> am.fx.lightLoop # <<>>])],
               [startTime |-> am.now, state |-> state,
                initialIntensities |->
                  [k \in LightKeys |->
                     IF am.fx.lights[k] = Null THEN PlusZero ELSE am.fx.lights[k][1]]])

\* maxLoops: how many transitions may have a frame requested at once.
AnimateLightForGameState(maxLoops) ==
  \E state \in Moods \cup {"paused"} :
    /\ Len(fx.lightLoop) < maxLoops
    /\ AmBecomes(LightForGameState(Am, state))

\* The scene is set up with some of the five lights, in the idle mood, before
\* the game asks for a mood.
CreateLights(lightSets) ==
  \E present \in lightSets :
    /\ present # {}
    /\ fx.lights = NoEffects.lights
    /\ fx.mood = Null
    /\ AmBecomes([Am EXCEPT !.fx.lights =
          [k \in LightKeys |->
             IF k \in present THEN Some(StateConfigs.idle[k]) ELSE Null]])

\* A display refresh dt later: the frames the scheduler requested run, then
\* the frame of the lighting transition.
LightRefreshBy(maxTime, steps) ==
  \E dt \in steps :
    /\ now + dt <= maxTime
    /\ fx.lightLoop # <<>>
    /\ AmBecomes(LightFrame(RunFrame(AtRefresh(dt), rafPending)))

LightRefresh(maxTime) == LightRefreshBy(maxTime, LightSteps)

\* Lighting-mood transitions, one after the other.
NextLights ==
  \/ CreateLights(SUBSET LightKeys)
  \/ AnimateLightForGameState(1)
  \/ LightRefresh(LiMaxTime)

SpecLights == Init /\ [][NextLights]_vars

\* Lighting-mood transitions asked for while an earlier one is in progress.
NextMoods ==
  \/ CreateLights(MoodLightSets)
  \/ AnimateLightForGameState(MoMaxLoops)
  \/ LightRefreshBy(MoMaxTime, MoodSteps)

SpecMoods == Init /\ [][NextMoods]_vars

\* Math.pow(x, 3), exact for the arguments it is given here.
Cube(x) == FMul(FMul(x, x), x)

\* Easing.easeOutElastic: 0 and 1 are returned for 0 and 1; the value in
\* between, a product of Math.pow and Math.sin, is kept as an expression.
EaseOutElastic(t) ==
  IF FEq(t, FromInt(0)) THEN Some(FromInt(0))
  ELSE IF FEq(t, FromInt(1)) THEN Some(FromInt(1))
  ELSE <<"easeOutElastic", t>>

\* Easing.easeOutBack
EaseOutBack(t) ==
  LET c1 == Dec(170158, 100000)
      c3 == FAdd(c1, FromInt(1))
  IN Some(FAdd(FAdd(FromInt(1), FMul(c3, Cube(FSub(t, FromInt(1))))),
               FMul(c1, Square(FSub(t, FromInt(1))))))

\* Easing.easeInOutCubic
EaseInOutCubic(t) ==
  IF FLess(t, Dec(5, 10))
  THEN Some(FMul(FMul(FMul(FromInt(4), t), t), t))
  ELSE Some(FSub(FromInt(1),
                 FDiv(Cube(FAdd(FMul(FromInt(-2), t), FromInt(2))), FromInt(2))))

\* Easing.easeOutQuad
EaseOutQuad(t) ==
  Some(FSub(FromInt(1), FMul(FSub(FromInt(1), t), FSub(FromInt(1), t))))

\* Easing.easeInOutSine: Math.cos(Math.PI * t) is 1 at 0 and -1 at 1; at
\* other arguments the value is kept as an expression.
EaseInOutSine(t) ==
  IF FEq(t, FromInt(0)) \/ FEq(t, FromInt(1))
  THEN LET cos == IF FEq(t, FromInt(0)) THEN FromInt(1) ELSE FromInt(-1)
       IN Some(FDiv(FNeg(FSub(cos, FromInt(1))), FromInt(2)))
  ELSE <<"easeInOutSine", t>>

EasingNames ==
  {"easeOutElastic", "easeOutBack", "easeInOutCubic", "easeOutQuad", "easeInOutSine"}

Easing(name, t) ==
  CASE name = "easeOutElastic" -> EaseOutElastic(t)
    [] name = "easeOutBack" -> EaseOutBack(t)
    [] name = "easeInOutCubic" -> EaseInOutCubic(t)
    [] name = "easeOutQuad" -> EaseOutQuad(t)
    [] name = "easeInOutSine" -> EaseInOutSine(t)

\* An easing function is applied to a progress k / 2^EaseBits in [0, 1].
Ease ==
  \E name \in EasingNames, k \in 0..(2^EaseBits) :
    LET t == FDiv(FromInt(k), FromInt(2^EaseBits))
    IN AmBecomes([Am EXCEPT !.fx.eased =
                    Some([name |-> name, t |-> t, value |-> Easing(name, t)])])

NextEasing == Ease

SpecEasing == Init /\ [][NextEasing]_vars

\* Math.floor(Math.random() * 100) + 1 for a random number whose first two
\* decimals are d.
RandomNum(d) == ((d * NumberRange) \div 100) + 1

\* One iteration of the loop of generateNonConsecutiveNumbers: num is pushed
\* unless numbers includes it.
GenIteratePushesAll(g, num) == [g EXCEPT !.numbers = Append(@, num)]

GenIterate(g, num) ==
  IF num \in Range(g.numbers) THEN g
  ELSE [g EXCEPT !.numbers = Append(@, num)]

\* Mutant of GenReturned: the loop runs while numbers.length <= count.
GenReturnedOneMore(g) == ~(Len(g.numbers) <= g.count)

\* The loop condition numbers.length < count is false: the call returns
\* numbers.
GenReturned(g) == ~(Len(g.numbers) < g.count)

\* generateNonConsecutiveNumbers(count) is called.
GenerateNonConsecutiveNumbers(maxCount) ==
  \E count \in 0..maxCount :
    /\ IF fx.gen = Null THEN TRUE ELSE GenReturned(fx.gen[1])
    /\ AmBecomes([Am EXCEPT !.fx.gen = Some([count |-> count, numbers |-> <<>>])])

\* The loop draws a number and runs its body.
GenDrawOf(d) ==
  /\ fx.gen # Null
  /\ IF fx.gen = Null THEN FALSE ELSE ~GenReturned(fx.gen[1])
  /\ AmBecomes([Am EXCEPT !.fx.gen = Some(GenIterate(fx.gen[1], RandomNum(d)))])

GenDraw == \E d \in RandomDraws : GenDrawOf(d)

NextGenerate ==
  \/ GenerateNonConsecutiveNumbers(GMaxCount)
  \/ GenDraw

SpecGenerate == Init /\ [][NextGenerate]_vars

\* The draws followed while the loop runs to its end: the one that gives the
\* smallest number the array does not hold and the one that gives 1; every
\* draw once the array holds all the numbers.
AllDraws == 0..(NumberRange - 1)

TermDraws ==
  IF fx.gen = Null THEN {}
  ELSE IF Len(fx.gen[1].numbers) < NumberRange THEN {0, Len(fx.gen[1].numbers)}
  ELSE AllDraws

GenDrawOn == \E d \in TermDraws : GenDrawOf(d)

NextTerminate ==
  \/ GenerateNonConsecutiveNumbers(TMaxCount)
  \/ GenDrawOn

\* Fair random draws: a draw that would give a number the array does not
\* hold is not put off forever.
SpecTerminate ==
  /\ Init /\ [][NextTerminate]_vars
  /\ \A d \in AllDraws : WF_vars(d \in TermDraws /\ GenDrawOf(d))

\* JavaScript values saved, by name, and the keys they are saved under.
StorageData == {"1", "2", "Infinity"}
PruneDays == {0, 1}             \* daysToKeep of the pruneOldData calls
StorageKeys == {"gameSettings", "gameProgress"}

\* The keys of the records pruneOldData finds in the store, and every key.
PruneKeys == {"gameSettings", "user_settings", "progress_1", "trial_1"}
AllKeys == StorageKeys \cup PruneKeys

\* id.includes(word) for the keys above: the test is case-sensitive.
Includes(id, word) ==
  \/ id = "user_settings" /\ word = "settings"
  \/ id = "progress_1" /\ word = "progress"
  \/ id = "trial_1" /\ word = "trial"

\* 24 * 60 * 60 * 1000
DayMs == 86400000

\* JSON.stringify(data): a number that is not finite is written as null.
JsonStringify(data) == IF data = "Infinity" THEN "null" ELSE data

\* JSON.parse(text): the value the text names.
JsonParse(text) == text

\* new StorageManager(): db is null; indexedDB is or is not in window. The
\* object store and localStorage are empty. init is "none", "pending" (the
\* open request is in flight), "resolved" or "rejected"; clock is Date.now(),
\* counted from the construction; saved and pruned are history: for each key
\* the data of the last save since the key was last deleted, and what the last
\* pruneOldData resolved to, with its cutoff.
StorageManager(supported) ==
  [db |-> Null, isIndexedDBSupported |-> supported, init |-> "none",
   objectStore |-> [k \in AllKeys |-> Null],
   localStorage |-> [k \in AllKeys |-> Null],
   saved |-> [k \in AllKeys |-> Null],
   clock |-> 0, pruned |-> Null]

\* this.isIndexedDBSupported && this.db
UsesIndexedDB(s) == s.isIndexedDBSupported /\ s.db # Null

\* init() up to its return: without IndexedDB it returns at once, else the
\* open request is made.
StorageInit(s) ==
  IF ~s.isIndexedDBSupported THEN [s EXCEPT !.init = "resolved"]
  ELSE [s EXCEPT !.init = "pending"]

\* request.onsuccess of init().
StorageInitSuccess(s) == [s EXCEPT !.db = Some("db"), !.init = "resolved"]

\* request.onerror of init().
StorageInitError(s) == [s EXCEPT !.init = "rejected"]

\* save(key, data), resolved.
StorageSaveToLocalStorage(s, key, data) ==
  [s EXCEPT !.localStorage[key] = Some(JsonStringify(data)),
            !.saved[key] = Some(data)]

StorageSave(s, key, data) ==
  IF UsesIndexedDB(s)
  THEN [s EXCEPT !.objectStore[key] = Some([id |-> key, data |-> data,
                                             timestamp |-> s.clock]),
                 !.saved[key] = Some(data)]
  ELSE StorageSaveToLocalStorage(s, key, data)

\* The value get(key) resolves to.
StorageGet(s, key) ==
  IF UsesIndexedDB(s)
  THEN IF s.objectStore[key] # Null THEN s.objectStore[key][1].data ELSE "null"
  ELSE IF s.localStorage[key] # Null THEN JsonParse(s.localStorage[key][1])
       ELSE "null"

\* delete(key), resolved.
StorageDelete(s, key) ==
  IF UsesIndexedDB(s)
  THEN [s EXCEPT !.objectStore[key] = Null, !.saved[key] = Null]
  ELSE [s EXCEPT !.localStorage[key] = Null, !.saved[key] = Null]

\* clear(), resolved.
StorageClear(s) ==
  IF UsesIndexedDB(s)
  THEN [s EXCEPT !.objectStore = [k \in AllKeys |-> Null],
                 !.saved = [k \in AllKeys |-> Null]]
  ELSE [s EXCEPT !.localStorage = [k \in AllKeys |-> Null],
                 !.saved = [k \in AllKeys |-> Null]]

\* The records index.openCursor(IDBKeyRange.upperBound(cutoffTime)) visits.
InRange(s, cutoffTime) ==
  {k \in AllKeys : IF s.objectStore[k] = Null THEN FALSE
                   ELSE s.objectStore[k][1].timestamp <= cutoffTime}

\* Mutant of PruneVisit: the id of the record is not looked at.
PruneVisitDeletesAll(r, k) ==
  [r EXCEPT !.st.objectStore[k] = Null, !.st.saved[k] = Null,
            !.deletedCount = @ + 1]

\* request.onsuccess of pruneOldData with the cursor on the record of key k.
PruneVisit(r, k) ==
  IF ~Includes(r.st.objectStore[k][1].id, "settings")
       /\ ~Includes(r.st.objectStore[k][1].id, "progress")
  THEN [r EXCEPT !.st.objectStore[k] = Null, !.st.saved[k] = Null,
                 !.deletedCount = @ + 1]
  ELSE r

\* The cursor goes through the records of todo in the order of the index.
RECURSIVE PruneCursor(_, _)
PruneCursor(r, todo) ==
  IF todo = {} THEN r
  ELSE LET k == CHOOSE x \in todo :
                  \A y \in todo : r.st.objectStore[x][1].timestamp
                                      <= r.st.objectStore[y][1].timestamp
       IN PruneCursor(PruneVisit(r, k), todo \ {k})

\* pruneOldData(daysToKeep): the state once the promise has resolved, and the
\* value it resolved to.
StoragePruneOldData(s, daysToKeep) ==
  LET cutoffTime == s.clock - (daysToKeep * DayMs)
      r == IF UsesIndexedDB(s)
           THEN PruneCursor([st |-> s, deletedCount |-> 0], InRange(s, cutoffTime))
           ELSE [st |-> s, deletedCount |-> 0]
  IN [r EXCEPT !.st.pruned = Some([resolved |-> r.deletedCount,
                                   cutoffTime |-> cutoffTime])]

StorageBecomes(s) == AmBecomes([Am EXCEPT !.fx.storage = Some(s)])

NewStorageManager ==
  \E supported \in BOOLEAN :
    /\ fx.storage = Null
    /\ StorageBecomes(StorageManager(supported))

Storage == fx.storage[1]

InitStorage ==
  /\ fx.storage # Null
  /\ Storage.init = "none"
  /\ StorageBecomes(StorageInit(Storage))

InitSuccess ==
  /\ fx.storage # Null
  /\ Storage.init = "pending"
  /\ StorageBecomes(StorageInitSuccess(Storage))

InitError ==
  /\ fx.storage # Null
  /\ Storage.init = "pending"
  /\ StorageBecomes(StorageInitError(Storage))

Save(keys, datas) ==
  \E key \in keys, data \in datas :
    /\ fx.storage # Null
    /\ StorageBecomes(StorageSave(Storage, key, data))

Delete ==
  \E key \in StorageKeys :
    /\ fx.storage # Null
    /\ StorageBecomes(StorageDelete(Storage, key))

Clear ==
  /\ fx.storage # Null
  /\ StorageBecomes(StorageClear(Storage))

NextStorage ==
  \/ NewStorageManager
  \/ InitStorage
  \/ InitSuccess
  \/ InitError
  \/ Save(StorageKeys, StorageData)
  \/ Delete
  \/ Clear

SpecStorage == Init /\ [][NextStorage]_vars

\* Date.now() advances by a millisecond or by a day.
StorageClock(maxDays) ==
  \E dt \in {1, DayMs} :
    /\ fx.storage # Null
    /\ IF fx.storage = Null THEN FALSE
       ELSE /\ Storage.clock + dt <= maxDays * DayMs + 1
            /\ (Storage.clock + dt) % DayMs <= 1
    /\ StorageBecomes([Storage EXCEPT !.clock = @ + dt])

PruneOldData ==
  \E daysToKeep \in PruneDays :
    /\ fx.storage # Null
    /\ StorageBecomes(StoragePruneOldData(Storage, daysToKeep).st)

\* Records of several kinds saved over the days and pruned.
NextPrune ==
  \/ NewStorageManager
  \/ InitStorage
  \/ InitSuccess
  \/ Save(PruneKeys, {"1"})
  \/ StorageClock(PrMaxDays)
  \/ PruneOldData

SpecPrune == Init /\ [][NextPrune]_vars

\* Date.now() when the TouchControls are constructed: a reading far more
\* than the double-tap gap after the clock's zero.
TouchEpoch == 1000000

DoubleTapGap == 300

\* event.touches.length of the touchstart events, and Date.now() differences
\* between two events.
TouchCounts == 1..3
TouchSteps == {0, 1, 150, 299, 300}

\* new TouchControls(camera, controls, renderer). isUserTurnCallback is Null
\* or holds the value the callback returns now; clock is Date.now(); tapped
\* and reset are history: the time of the last one-finger touchstart and
\* whether the last touchstart called resetCamera.
NewTouchControls ==
  [lastTapTime |-> 0, isUserTurnCallback |-> Null, clock |-> TouchEpoch,
   tapped |-> Null, reset |-> FALSE]

\* this.isUserTurnCallback ? this.isUserTurnCallback() : false
IsUserTurn(tc) ==
  IF tc.isUserTurnCallback = Null THEN FALSE ELSE tc.isUserTurnCallback[1]

\* Mutant of OnTouchStart: the double tap is not tested against the turn.
OnTouchStartIgnoresTurn(tc, touches) ==
  IF touches = 1
  THEN LET currentTime == tc.clock
           tapGap == currentTime - tc.lastTapTime
       IN [tc EXCEPT !.reset = tapGap < DoubleTapGap /\ tapGap > 0,
                     !.lastTapTime = currentTime,
                     !.tapped = Some(currentTime)]
  ELSE [tc EXCEPT !.reset = FALSE]

\* onTouchStart(event) with event.touches.length = touches.
OnTouchStart(tc, touches) ==
  IF touches = 1
  THEN LET currentTime == tc.clock
           tapGap == currentTime - tc.lastTapTime
           isUserTurn == IsUserTurn(tc)
       IN [tc EXCEPT !.reset = tapGap < DoubleTapGap /\ tapGap > 0 /\ ~isUserTurn,
                     !.lastTapTime = currentTime,
                     !.tapped = Some(currentTime)]
  ELSE [tc EXCEPT !.reset = FALSE]

CreateTouchControls ==
  /\ fx.touch = Null
  /\ AmBecomes([Am EXCEPT !.fx.touch = Some(NewTouchControls)])

\* setIsUserTurnCallback(callback), or the game's turn changes and with it
\* what the callback returns.
SetIsUserTurnCallback ==
  \E callback \in {Null, Some(FALSE), Some(TRUE)} :
    /\ fx.touch # Null
    /\ IF fx.touch = Null THEN FALSE ELSE fx.touch[1].isUserTurnCallback # callback
    /\ AmBecomes([Am EXCEPT !.fx.touch[1].isUserTurnCallback = callback])

\* A touchstart event dt after the last event.
TouchStart(maxTime) ==
  \E touches \in TouchCounts, dt \in TouchSteps :
    /\ fx.touch # Null
    /\ IF fx.touch = Null THEN FALSE
       ELSE fx.touch[1].clock + dt <= TouchEpoch + maxTime
    /\ AmBecomes([Am EXCEPT !.fx.touch =
          Some(OnTouchStart([fx.touch[1] EXCEPT !.clock = @ + dt], touches))])

NextTouch ==
  \/ CreateTouchControls
  \/ SetIsUserTurnCallback
  \/ TouchStart(TcMaxTime)

SpecTouch == Init /\ [][NextTouch]_vars

\* The service worker. Requests are a method and a URL; a response is its
\* status, its type and where its body came from. The network answers a fetch
\* with a response or fails (Null).
SwUrls == {"/index.html", "/js/utils.js", "/api/scores"}
SwRequests == [method : {"GET", "POST"}, url : SwUrls]
SwInstalled == [status |-> 200, type |-> "basic", body |-> "installed"]
SwNetwork ==
  {Null} \cup {Some([status |-> st[1], type |-> st[2], body |-> "network"]) :
                 st \in {<<200, "basic">>, <<404, "basic">>, <<200, "cors">>,
                         <<0, "opaque">>}}

\* caches.match(request): the response cached for the URL of a GET request,
\* Null for undefined.
CachesMatch(cache, request) ==
  IF request.method = "GET" THEN cache[request.url] ELSE Null

\* cache.put(request, response): rejected for a request that is not a GET.
CachePut(cache, request, response) ==
  IF request.method = "GET" THEN [cache EXCEPT ![request.url] = Some(response)]
  ELSE cache

\* Mutant of OnFetch: every network response is put in the cache.
OnFetchCachesAll(sw, request, net) ==
  LET hit == CachesMatch(sw.cache, request)
  IN IF hit # Null
     THEN [sw EXCEPT !.last = Some([request |-> request, fetched |-> FALSE,
                                    response |-> hit])]
     ELSE IF net = Null
     THEN [sw EXCEPT !.last = Some([request |-> request, fetched |-> TRUE,
                                    response |-> CachesMatch(sw.cache,
                                       [method |-> "GET", url |-> "/index.html"])])]
     ELSE [sw EXCEPT !.cache = CachePut(@, request, net[1]),
                     !.last = Some([request |-> request, fetched |-> TRUE,
                                    response |-> net])]

\* The fetch event handler for a request, the network answering net when it
\* is asked; last is history: the request, whether fetch was called, and the
\* response the event was answered with.
OnFetch(sw, request, net) ==
  LET hit == CachesMatch(sw.cache, request)
  IN IF hit # Null
     THEN [sw EXCEPT !.last = Some([request |-> request, fetched |-> FALSE,
                                    response |-> hit])]
     ELSE IF net = Null
     THEN [sw EXCEPT !.last = Some([request |-> request, fetched |-> TRUE,
                                    response |-> CachesMatch(sw.cache,
                                       [method |-> "GET", url |-> "/index.html"])])]
     ELSE IF net[1].status # 200 \/ net[1].type # "basic"
     THEN [sw EXCEPT !.last = Some([request |-> request, fetched |-> TRUE,
                                    response |-> net])]
     ELSE [sw EXCEPT !.cache = CachePut(@, request, net[1]),
                     !.last = Some([request |-> request, fetched |-> TRUE,
                                    response |-> net])]

\* The install event: the URLs whose caching succeeded are in the cache.
SwInstall ==
  \E urls \in SUBSET {"/index.html", "/js/utils.js"} :
    /\ fx.sw = Null
    /\ AmBecomes([Am EXCEPT !.fx.sw =
          Some([cache |-> [u \in SwUrls |->
                             IF u \in urls THEN Some(SwInstalled) ELSE Null],
                last |-> Null])])

\* The message 'clearCache': caches.delete(CACHE_NAME).
SwClearCache ==
  /\ fx.sw # Null
  /\ AmBecomes([Am EXCEPT !.fx.sw[1].cache = [u \in SwUrls |-> Null]])

SwFetch ==
  \E request \in SwRequests, net \in SwNetwork :
    /\ fx.sw # Null
    /\ AmBecomes([Am EXCEPT !.fx.sw = Some(OnFetch(fx.sw[1], request, net))])

NextWorker ==
  \/ SwInstall
  \/ SwClearCache
  \/ SwFetch

SpecWorker == Init /\ [][NextWorker]_vars

\* Particle bursts under the scheduler operations of game code.
NextBurst ==
  \/ CreateParticleBurst(BMaxAnims)
  \/ Cancel
  \/ StopAll
  \/ RefreshBy(BMaxTime, BurstSteps)

SpecBurst == Init /\ [][NextBurst]_vars

\* Pulses of one ball whose highlight flag game code sets and clears.
NextPulse ==
  \/ PulseBall(PMaxAnims)
  \/ \E b \in BOOLEAN : SetHighlighted(b)
  \/ Cancel
  \/ StopAll
  \/ RefreshBy(PMaxTime, PulseSteps)

SpecPulse == Init /\ [][NextPulse]_vars

\* The scheduler with callbacks that leave it alone.
NextAnim ==
  \/ Add(MaxAnims, Durations, PlainKinds)
  \/ Cancel
  \/ StopAll
  \/ Refresh(MaxTime)

SpecAnim == Init /\ [][NextAnim]_vars

\* The scheduler with callbacks that leave it alone and one duration: enough
\* animations for the order of three to show.
NextOrder ==
  \/ Add(OMaxAnims, {2}, {[call |-> NoCall, oc |-> FALSE, effect |-> NoEffect]})
  \/ Cancel
  \/ Refresh(OMaxTime)

SpecOrder == Init /\ [][NextOrder]_vars

\* The system clock is set back between two scheduler calls.
ClockBack ==
  /\ now > 0
  /\ AmBecomes([Am EXCEPT !.now = now - 1])

\* The scheduler under a clock that does not only advance.
NextClock ==
  \/ Add(KMaxAnims, {2}, {[call |-> NoCall, oc |-> TRUE, effect |-> NoEffect]})
  \/ Refresh(KMaxTime)
  \/ ClockBack

SpecClock == Init /\ [][NextClock]_vars

\* The scheduler with callbacks that cancel other animations or themselves.
NextCallbacks ==
  \/ Add(CMaxAnims, {2}, PlainKinds \cup CancelKinds(CMaxAnims))
  \/ Cancel
  \/ Refresh(CMaxTime)

SpecCallbacks == Init /\ [][NextCallbacks]_vars

\* The scheduler with callbacks that call stopAll() or add().
NextReentrant ==
  \/ Add(RMaxAnims, {2}, PlainKinds \cup ReentrantKinds)
  \/ Cancel
  \/ StopAll
  \/ Refresh(RMaxTime)

SpecReentrant == Init /\ [][NextReentrant]_vars

----------------------------------------------------------------------------
(* Properties *)

\* C1: after any sequence of initialize, acquire, release and releaseAll,
\* every ball the pool has created is in exactly one of the free list and
\* the active list, and appears in that list exactly once.
BallInExactlyOneList ==
  \A b \in 1..ballCount : Count(bpPool, b) + Count(bpActive, b) = 1

\* Balls in both lists, one of the free ones having been acquired and
\* released before.
BallInExactlyOneListWitness ==
  /\ ballCount >= 3
  /\ bpActive # <<>>
  /\ \E b \in Range(bpPool) : balls[b].originalColor \in Colors
  /\ BallInExactlyOneList

\* C2 as stated: in every reachable state, acquire followed by release of the
\* returned ball leaves the free list as long as it was before the acquire.
AcquireReleaseKeepsFreeSize ==
  \A color \in Colors :
    LET a == BpAcquire(St, color)
    IN Len(BpRelease(a.st, a.ball).pool) = Len(bpPool)

\* C2 amended: acquire followed by release of the returned ball leaves the
\* free list as long as it was before the acquire when it was not empty, and
\* of length 1 when it was empty (the ball built by the acquire joins it).
AcquireReleaseFreeSize ==
  \A color \in Colors :
    LET a == BpAcquire(St, color)
        after == Len(BpRelease(a.st, a.ball).pool)
    IN IF Len(bpPool) > 0 THEN after = Len(bpPool) ELSE after = 1

\* A free list of two with a ball in use: the acquire reuses a free ball and
\* the release gives it back.
AcquireReleaseFreeSizeWitness ==
  /\ Len(bpPool) = 2
  /\ bpActive # <<>>
  /\ \E color \in Colors :
       LET a == BpAcquire(St, color)
       IN /\ a.ball \in Range(bpPool)
          /\ Len(a.st.pool) = 1
          /\ Len(BpRelease(a.st, a.ball).pool) = 2

\* C3: releaseAll() with N active balls ends with the active list empty and
\* the free list longer by exactly N, each formerly active ball in it once.
ReleaseAllFreesEveryActive ==
  LET r == BpReleaseAll(St)
  IN /\ r.active = <<>>
     /\ Len(r.pool) = Len(bpPool) + Len(bpActive)
     /\ \A b \in Range(bpActive) : Count(r.pool, b) = 1
     /\ \A b \in Range(bpPool) : Count(r.pool, b) = Count(bpPool, b)

\* At least two active balls and a free one.
ReleaseAllFreesEveryActiveWitness ==
  /\ Len(bpActive) >= 2
  /\ Len(bpPool) >= 1
  /\ BpReleaseAll(St).active = <<>>
  /\ Len(BpReleaseAll(St).pool) = Len(bpPool) + Len(bpActive)

\* C4: after initialize(M) and K acquires with no release in between, the
\* first min(K, M) acquires returned pre-allocated balls and built nothing,
\* exactly max(0, K - M) balls were built by acquires, and once all K are
\* released the free list holds max(M, K) balls and the active list none.
ScenarioCounts ==
  sc.phase # "none" =>
    LET K == Len(sc.got)
        M == sc.M
    IN /\ \A i \in 1..K :
            IF i <= M
            THEN sc.got[i].ball \in 1..M /\ sc.got[i].built = 0
            ELSE sc.got[i].ball > M /\ sc.got[i].built = 1
       /\ \A i, j \in 1..K : i # j => sc.got[i].ball # sc.got[j].ball
       /\ ballCount - M = Max(0, K - M)
       /\ (sc.phase = "acquiring") => (Len(bpActive) = K /\ Len(bpPool) = M - Min(K, M))
       /\ (sc.phase = "releasing" /\ bpActive = <<>>) => Len(bpPool) = Max(M, K)

\* The scenario of the specification in small: M = 2, K = 4, all released.
ScenarioCountsWitness ==
  /\ sc.phase = "releasing"
  /\ sc.M = 2
  /\ Len(sc.got) = 4
  /\ bpActive = <<>>
  /\ Len(bpPool) = 4

\* A ball's visibility, position and userData (the attached label included),
\* the material and the scale left out.
OwnFields(b) ==
  [b EXCEPT !.color = 0, !.emissive = 0, !.emissiveIntensity = 0, !.scale = Zero3]

\* C5 as stated: release(x) of a ball that is not in the active list changes
\* nothing: not the lists, not the Label Pool, not the ball's fields.
ReleaseOfInactiveIsNoOp ==
  \A b \in 1..ballCount :
    b \notin Range(bpActive) =>
      LET r == BpRelease(St, b)
      IN /\ r.pool = bpPool
         /\ r.active = bpActive
         /\ r.lpPool = lpPool /\ r.lpActive = lpActive /\ r.labels = labels
         /\ OwnFields(r.balls[b]) = OwnFields(balls[b])

\* C6: release(b) twice on an active ball b leaves the state release(b) once
\* leaves, with b in the free list exactly once.
ReleaseIdempotent ==
  \A b \in Range(bpActive) :
    LET once == BpRelease(St, b)
    IN /\ BpRelease(once, b) = once
       /\ Count(once.pool, b) = 1
       /\ Count(BpRelease(once, b).pool, b) = 1

\* An active ball with a label attached and a Label Pool set: the first
\* release moves the ball and releases the label, the second changes nothing.
ReleaseIdempotentWitness ==
  \E b \in Range(bpActive) :
    /\ bpLabelPool
    /\ balls[b].label # Null
    /\ BpRelease(St, b) # St
    /\ BpRelease(BpRelease(St, b), b) = BpRelease(St, b)

\* C7: with a Label Pool set, releasing an active ball that has a label
\* leaves the ball without label and in the free list, the label hidden and
\* out of the Label Pool's active list.
ReleaseDetachesLabel ==
  \A b \in Range(bpActive) :
    (bpLabelPool /\ balls[b].label # Null) =>
      LET r == BpRelease(St, b)
          l == balls[b].label[1]
      IN /\ r.balls[b].label = Null
         /\ ~r.labels[l].visible
         /\ l \notin Range(r.lpActive)
         /\ b \in Range(r.pool)
         /\ b \notin Range(r.active)

\* An active ball whose label is visible and in the Label Pool's active list.
ReleaseDetachesLabelWitness ==
  \E b \in Range(bpActive) :
    /\ bpLabelPool
    /\ balls[b].label # Null
    /\ labels[balls[b].label[1]].visible
    /\ balls[b].label[1] \in Range(lpActive)
    /\ BpRelease(St, b).balls[b].label = Null

\* The gameplay fields the data model lists.
GameplayFields(b) ==
  [velocity |-> b.velocity, isCurrentlyHighlighted |-> b.isCurrentlyHighlighted,
   isFlashing |-> b.isFlashing, isRotating |-> b.isRotating,
   rotationGroup |-> b.rotationGroup, rotationAxis |-> b.rotationAxis,
   rotationAngle |-> b.rotationAngle, isColorSwapping |-> b.isColorSwapping,
   targetColor |-> b.targetColor, colorSwapProgress |-> b.colorSwapProgress,
   colorSwapStartTime |-> b.colorSwapStartTime, initialColor |-> b.initialColor,
   swapStartColor |-> b.swapStartColor, baseSpeed |-> b.baseSpeed,
   currentSpeedMultiplier |-> b.currentSpeedMultiplier,
   isSpeedBursting |-> b.isSpeedBursting, speedBurstEndTime |-> b.speedBurstEndTime,
   animationProgress |-> b.animationProgress, targetScale |-> b.targetScale,
   scale |-> b.scale]

\* C8 as stated: after release of an active ball every gameplay field of the
\* ball has the value it has on a newly constructed ball.
ReleaseResetsGameplayFields ==
  \A b \in Range(bpActive) :
    GameplayFields(BpRelease(St, b).balls[b]) = GameplayFields(createBall)

\* C9 as stated: every ball with a label attached has that label in the
\* Label Pool's active list.
AttachedLabelIsActive ==
  \A b \in DOMAIN balls :
    balls[b].label # Null => balls[b].label[1] \in Range(lpActive)

\* C10: createLabel runs at most once per number, on the first acquire of it;
\* with a font loaded every acquire(N) returns a clone of N's one template
\* that is a new object (not the template, not an earlier clone) and is in
\* the active list.
TemplateOnceCloneFresh ==
  \A n \in Numbers :
    /\ createCalls[n] = (IF KeyOf(n) \in DOMAIN lpPool THEN 1 ELSE 0)
    /\ lpLoadedFont =>
         LET r == LpAcquire(St, n)
             template == r.st.lpPool[KeyOf(n)]
         IN /\ KeyOf(n) \in DOMAIN r.st.lpPool
            /\ r.st.createCalls[n] = 1
            /\ r.label # Null
            /\ r.label[1] \notin DOMAIN labels
            /\ r.label[1] # template
            /\ r.st.labels[r.label[1]].clonedFrom = template
            /\ r.st.labels[template].clonedFrom = 0
            /\ r.st.labels[template].number = n
            /\ Count(r.st.lpActive, r.label[1]) = 1

\* Two clones of number 1 out, one of them released, and number 2 cached too.
TemplateOnceCloneFreshWitness ==
  /\ lpLoadedFont
  /\ createCalls = [n \in Numbers |-> 1]
  /\ \E c1, c2 \in Clones :
       /\ c1 # c2
       /\ labels[c1].number = 1 /\ labels[c2].number = 1
       /\ labels[c1].clonedFrom = labels[c2].clonedFrom
       /\ c1 \in Range(lpActive) /\ c2 \notin Range(lpActive)

\* C11: LabelPool.acquire(number) called while no font is loaded returns null
\* and changes nothing: the template cache, the active list and the set of
\* label objects stay as they were and createLabel is not called.
AcquireWithoutFontReturnsNull ==
  ~lpLoadedFont =>
     \A n \in Numbers :
        LET r == LpAcquire(St, n)
        IN /\ r.label = Null
           /\ r.st.lpPool = lpPool
           /\ r.st.lpActive = lpActive
           /\ r.st.labelCount = labelCount
           /\ r.st.createCalls = createCalls

\* The font is not loaded while the cache and the active list hold labels of
\* an earlier loaded font, so that a change would show.
AcquireWithoutFontReturnsNullWitness ==
  /\ ~lpLoadedFont
  /\ DOMAIN lpPool # {}
  /\ lpActive # <<>>

\* C12: LabelPool.release(clone) takes the clone out of the active list and
\* hides it, leaves the template cache as it was, and no acquire after it
\* returns the released clone; no acquire returns any clone released earlier.
ReleasedCloneNeverReused ==
  /\ \A c \in Clones :
        LET r == LpRelease(St, Some(c))
        IN /\ c \notin Range(r.lpActive)
           /\ ~r.labels[c].visible
           /\ r.lpPool = lpPool
           /\ r.labelCount = labelCount
           /\ \A n \in Numbers : LpAcquire(r, n).label # Some(c)
  /\ \A c \in Clones \ Range(lpActive) :
        \A n \in Numbers : LpAcquire(St, n).label # Some(c)

\* A font is loaded, one clone is active and another has been released.
ReleasedCloneNeverReusedWitness ==
  /\ lpLoadedFont
  /\ lpActive # <<>>
  /\ \E c \in Clones : c \notin Range(lpActive) /\ ~labels[c].visible

\* C13: BpAcquire always hands out a ball: one that was not in the active
\* array before the call, and that is visible and exactly once in the active
\* array after it, whether the free array is empty or not.
AcquireHandsOutFreshActiveBall ==
  \A color \in Colors :
     LET a == BpAcquire(St, color)
     IN /\ a.ball \in DOMAIN a.st.balls
        /\ a.ball \notin Range(bpActive)
        /\ a.st.balls[a.ball].visible
        /\ Count(a.st.active, a.ball) = 1

\* Balls are in use and the free array is empty: acquire has to grow the pool.
AcquireHandsOutFreshActiveBallWitness ==
  /\ bpPool = <<>>
  /\ Len(bpActive) >= 2

\* The animations whose callbacks a tick that starts now would invoke.
CalledBy(am) == {am.calls[i].anim : i \in DOMAIN am.calls}

\* C14: once cancel() has been called on an animation's handle, no tick that
\* starts later invokes its update function or its completion callback, and
\* the next tick leaves it out of activeAnimations.
CancelledNeverCalledAgain ==
  /\ \A a \in DOMAIN anims : ~anims[a].lateCall
  /\ LET u == AmUpdate(Am)
     IN \A a \in DOMAIN anims :
          anims[a].cancelled =>
             /\ a \notin CalledBy(u)
             /\ a \notin Range(u.activeAnimations)

\* One animation was cancelled by a caller, is still in activeAnimations and a
\* frame is requested; another was cancelled by a callback of a third during a
\* tick and has left activeAnimations without completing.
CancelledNeverCalledAgainWitness ==
  /\ rafPending # <<>>
  /\ \E a \in DOMAIN anims :
       /\ anims[a].cancelled /\ anims[a].updated
       /\ a \in Range(activeAnimations)
  /\ \E b, c \in DOMAIN anims :
       /\ anims[c].call.act = "cancel" /\ anims[c].call.target = b /\ anims[c].called
       /\ b # c
       /\ anims[b].cancelled /\ anims[b].updated /\ anims[b].completes = 0
       /\ b \notin Range(activeAnimations)

\* C15: an animation whose handle was cancelled before any display refresh
\* since its add() has never had its update function invoked, whether the
\* scheduler was idle or running at the add().
CancelBeforeRefreshNeverUpdated ==
  \A a \in DOMAIN anims : anims[a].earlyCancel => ~anims[a].updated

\* C16: an animation that is neither cancelled nor cleared by stopAll() is
\* updated with progress exactly 1 at the first tick whose elapsed time has
\* reached its duration, leaves activeAnimations at that tick and no sooner,
\* and its completion callback, when there is one, has run once by then and
\* never runs again.
CompletesExactlyOnce ==
  \A a \in DOMAIN anims :
     (~anims[a].cancelled /\ ~anims[a].cleared) =>
        /\ ~anims[a].overdue
        /\ anims[a].ones <= 1
        /\ (anims[a].ones = 1) <=> (a \notin Range(activeAnimations))
        /\ anims[a].completes = IF anims[a].onComplete THEN anims[a].ones ELSE 0

\* C17: every progress value passed to an update function lies in [0, 1].
ProgressInUnitInterval ==
  \A i \in DOMAIN calls : calls[i].fn = "update" => InUnit(calls[i].progress)

\* The animations whose update function was invoked in tick t, in the order
\* of the invocations.
UpdatedIn(cs, t) ==
  LET us == SelectSeq(cs, LAMBDA e : e.fn = "update" /\ e.tick = t)
  IN [i \in DOMAIN us |-> us[i].anim]

\* Animation identities are given in the order of add(): s lists animations
\* in the order they were registered.
InOrderOfAdd(s) == \A i, j \in DOMAIN s : i < j => s[i] < s[j]

\* C18: activeAnimations always lists the animations in the order they were
\* registered, every tick has invoked the update functions in that order, and
\* a tick starting now updates exactly the non-cancelled animations of
\* activeAnimations, in the order they were registered.
UpdatedInOrderOfAdd ==
  /\ InOrderOfAdd(activeAnimations)
  /\ \A i \in DOMAIN calls : InOrderOfAdd(UpdatedIn(calls, calls[i].tick))
  /\ LET u == AmUpdate(Am)
     IN UpdatedIn(u.calls, 1) =
          SelectSeq(activeAnimations, LAMBDA a : ~anims[a].cancelled)

\* The second of three animations has been removed and the tick that removed
\* it has updated the first and then the third.
UpdatedInOrderOfAddWitness ==
  /\ activeAnimations = <<1, 3>>
  /\ UpdatedIn(calls, 1) = <<1, 3>>

\* The cancel() calls the callbacks of other animations made in the last
\* tick on animations that were in activeAnimations: positions in calls.
CancelsByOthers ==
  {i \in DOMAIN calls :
     calls[i].fn = "cancel" /\ calls[i].by # calls[i].anim /\ calls[i].live}

\* Before entry i of calls, the update function of animation b had been
\* invoked in the same tick: b's turn had come.
TurnPassed(i, b) ==
  \E j \in 1..(i - 1) :
     calls[j].tick = calls[i].tick /\ calls[j].anim = b /\ calls[j].fn = "update"

\* After entry i of calls, a callback of animation b was invoked.
InvokedAfter(i, b) ==
  \E j \in (i + 1)..Len(calls) :
     calls[j].anim = b /\ calls[j].fn \in {"update", "complete"}

\* C19 as stated: when a callback of another animation cancels B during a
\* tick and B's turn has not yet come, B is still updated in that tick and is
\* still in activeAnimations when the tick ends.
CancelInTickWaitsForNextTick ==
  \A i \in CancelsByOthers :
     ~TurnPassed(i, calls[i].anim) =>
        /\ InvokedAfter(i, calls[i].anim)
        /\ calls[i].anim \in Range(activeAnimations)

\* C19, amended: when a callback of another animation cancels B during a
\* tick, no callback of B is invoked after the call. If B's turn had not yet
\* come, B is skipped and has left activeAnimations when the tick ends; if
\* B's turn had passed without completing B, B is still in activeAnimations
\* when the tick ends and the next tick removes it without invoking it.
CancelInTickSkipsWaiting ==
  \A i \in CancelsByOthers :
     LET b == calls[i].anim
     IN /\ ~InvokedAfter(i, b)
        /\ ~TurnPassed(i, b) => b \notin Range(activeAnimations)
        /\ (TurnPassed(i, b) /\ anims[b].ones = 0) =>
              /\ b \in Range(activeAnimations)
              /\ b \notin Range(AmUpdate(Am).activeAnimations)
              /\ b \notin CalledBy(AmUpdate(Am))

\* In the last tick a callback cancelled an animation that earlier ticks had
\* updated and whose turn was still to come.
CancelInTickSkipsWaitingWitness ==
  \E i \in CancelsByOthers :
     ~TurnPassed(i, calls[i].anim) /\ anims[calls[i].anim].updated

\* C20: between scheduler calls, isRunning holds exactly when a frame is
\* requested, a non-empty activeAnimations has a frame requested, an empty
\* one has the driver stopped, and add() on a stopped driver leaves it
\* running whenever it leaves an animation in activeAnimations.
RunningIffFramePending ==
  /\ isRunning <=> rafPending # <<>>
  /\ activeAnimations # <<>> => rafPending # <<>>
  /\ activeAnimations = <<>> => ~isRunning
  /\ ~isRunning =>
       LET r == AmAdd(Am, 2, [call |-> NoCall, oc |-> FALSE, effect |-> NoEffect])
       IN /\ r.isRunning
          /\ r.rafPending # <<>>

\* C21: at most one frame request of the scheduler is pending between
\* scheduler calls, and the last scheduler call or display refresh has invoked
\* the update function of each animation at most once.
AtMostOneFramePending ==
  /\ Len(rafPending) <= 1
  /\ \A a \in DOMAIN anims :
        Cardinality({i \in DOMAIN calls :
                       calls[i].anim = a /\ calls[i].fn = "update"}) <= 1

\* C22: stopAll() called now leaves activeAnimations empty, no frame
\* requested and the driver stopped; and an animation that a stopAll() has
\* cleared, from outside a tick or from a callback, is never in
\* activeAnimations again, so that no later tick invokes its callbacks.
StopAllStopsEverything ==
  /\ LET s == AmStopAll(Am)
     IN /\ s.activeAnimations = <<>>
        /\ s.rafPending = <<>>
        /\ ~s.isRunning
  /\ \A a \in DOMAIN anims :
        anims[a].cleared =>
           /\ a \notin Range(activeAnimations)
           /\ a \notin CalledBy(AmUpdate(Am))

\* The pulse animations that were neither cancelled nor cleared by stopAll().
LivePulses ==
  {a \in DOMAIN anims :
     /\ anims[a].effect.name = "pulse"
     /\ ~anims[a].cancelled
     /\ ~anims[a].cleared}

\* C23: a pulse animation that was neither cancelled nor cleared by stopAll()
\* is in activeAnimations with a frame requested, whatever the highlight flag
\* is; a tick at any later refresh keeps it there, and leaves the ball's scale
\* as it is when the flag is clear.
PulseStaysUntilCancelled ==
  /\ \A a \in LivePulses :
        /\ a \in Range(activeAnimations)
        /\ isRunning
        /\ rafPending # <<>>
  /\ \A dt \in PulseSteps :
        LET u == RunFrame(AtRefresh(dt), rafPending)
        IN /\ \A a \in LivePulses :
                a \in Range(u.activeAnimations) /\ u.rafPending # <<>>
           /\ ~fx.ball.isCurrentlyHighlighted => u.fx.ball.scale = fx.ball.scale

\* A pulse has been updated at a refresh, the flag has been cleared since and
\* the ball is left at the scale of the last highlighted tick.
PulseStaysUntilCancelledWitness ==
  /\ \E a \in LivePulses : anims[a].updated /\ anims[a].startTime < now
  /\ ~fx.ball.isCurrentlyHighlighted
  /\ fx.ball.scale = Num(120)

\* The particle bursts whose handle was not cancelled.
Bursts ==
  {a \in DOMAIN anims : anims[a].effect.name = "burst" /\ ~anims[a].cancelled}

\* The number of times part what of the primitive of animation a was disposed.
Disposals(f, a, what) ==
  Cardinality({i \in DOMAIN f.disposed : f.disposed[i] = [of |-> a, what |-> what]})

\* C24: for a particle burst that was not cancelled, geometry and material
\* are disposed at most once, the primitive is in the scene exactly as long
\* as they are not disposed and as long as no 800 ms have elapsed, and a tick
\* at a refresh at which 800 ms have elapsed leaves the primitive out of the
\* scene with geometry and material disposed once.
BurstDisposedOnce ==
  \A a \in Bursts :
     /\ Disposals(fx, a, "geometry") <= 1
     /\ Disposals(fx, a, "material") = Disposals(fx, a, "geometry")
     /\ (a \in fx.scene) <=> (Disposals(fx, a, "geometry") = 0)
     /\ now - anims[a].startTime < BurstDuration => a \in fx.scene
     /\ \A dt \in BurstSteps :
          (rafPending # <<>> /\ now + dt - anims[a].startTime >= BurstDuration) =>
             LET u == RunFrame(AtRefresh(dt), rafPending)
             IN /\ a \notin u.fx.scene
                /\ Disposals(u.fx, a, "geometry") = 1
                /\ Disposals(u.fx, a, "material") = 1

\* The selection-feedback animations that have completed.
Selections ==
  {a \in DOMAIN anims : anims[a].effect.name = "selection" /\ anims[a].completes > 0}

\* C25: when a selection-feedback animation has completed, the ball's scale,
\* position and emissive intensity are the ones it had when the animation
\* was started.
SelectionRestoresStartValues ==
  \A a \in Selections :
     anims[a].effect.atComplete =
       Some([scale |-> anims[a].effect.startScale,
             position |-> anims[a].effect.originalPosition,
             emissiveIntensity |-> anims[a].effect.emissiveAtStart])

\* C26: a lighting transition to one of the five moods whose frame runs 500
\* ms or more after its start leaves every light the lights object has at
\* the mood's target intensity, requests no further frame and leaves the
\* lights the object does not have absent.
LightsReachTarget ==
  \A dt \in LightSteps :
    (/\ fx.lightLoop # <<>>
     /\ fx.lightLoop[1].state \in Moods
     /\ now + dt - fx.lightLoop[1].startTime >= LightDuration) =>
       LET u == LightFrame(AtRefresh(dt))
       IN /\ u.fx.lightLoop = <<>>
          /\ \A k \in LightKeys :
               IF fx.lights[k] = Null THEN u.fx.lights[k] = Null
               ELSE /\ u.fx.lights[k] # Null
                    /\ FEq(u.fx.lights[k][1], StateConfigs[fx.lightLoop[1].state][k])

\* The value the last easing call returned is the number v.
EasedTo(v) ==
  /\ Len(fx.eased[1].value) = 1
  /\ FEq(fx.eased[1].value[1], v)

\* C27: each of the five easing functions maps 0 to 0 and 1 to 1, and
\* easeInOutCubic maps 0.5 to 0.5.
EasingEndpoints ==
  fx.eased # Null =>
    /\ FEq(fx.eased[1].t, FromInt(0)) => EasedTo(FromInt(0))
    /\ FEq(fx.eased[1].t, FromInt(1)) => EasedTo(FromInt(1))
    /\ (fx.eased[1].name = "easeInOutCubic" /\ FEq(fx.eased[1].t, Dec(5, 10))) =>
          EasedTo(Dec(5, 10))

\* The call of generateNonConsecutiveNumbers has returned.
Generated == fx.gen # Null /\ GenReturned(fx.gen[1])

\* C28: when generateNonConsecutiveNumbers(count) returns, the array holds
\* exactly count integers, each in 1..100, no two of them equal.
GeneratesCountDistinct ==
  Generated =>
    LET numbers == fx.gen[1].numbers
    IN /\ Len(numbers) = fx.gen[1].count
       /\ \A i \in DOMAIN numbers : numbers[i] \in 1..NumberRange
       /\ \A i, j \in DOMAIN numbers : i # j => numbers[i] # numbers[j]

\* A call with the largest count has returned.
GeneratesCountDistinctWitness ==
  Generated /\ fx.gen[1].count = GMaxCount

\* C29: no two numbers of the returned array differ by exactly 1.
GeneratesNonConsecutive ==
  Generated =>
    LET numbers == fx.gen[1].numbers
    IN \A i, j \in DOMAIN numbers :
         numbers[i] - numbers[j] # 1 /\ numbers[j] - numbers[i] # 1

\* C30: once save(key, data) has resolved, get(key) resolves to data until
\* the key is deleted, the store is cleared or the key is saved again,
\* whether init() has not started, is in flight or has completed in between.
GetReturnsLastSave ==
  fx.storage # Null =>
    \A key \in StorageKeys :
       Storage.saved[key] # Null => StorageGet(Storage, key) = Storage.saved[key][1]

\* C31: an animation registered from inside a callback while a tick is in
\* progress, and neither cancelled, cleared by stopAll() nor completed since,
\* is in the active collection, as one registered outside a tick is.
AddedInTickIsKept ==
  \A a \in DOMAIN anims :
     (/\ anims[a].inTick
      /\ ~anims[a].cancelled
      /\ ~anims[a].cleared
      /\ anims[a].completes = 0) => a \in Range(activeAnimations)

\* Invocation e of the log writes the field of the ball: the completion
\* callback of selection feedback writes all three fields, its update
\* function scale and emissive intensity (correct) or position (incorrect),
\* the update function of a pulse the scale of a highlighted ball.
Writes(e, field) ==
  LET ef == anims[e.anim].effect
  IN CASE ef.name = "selection" /\ e.fn = "complete" -> TRUE
       [] ef.name = "selection" /\ e.fn = "update" ->
            IF ef.isCorrect THEN field \in {"scale", "emissiveIntensity"}
            ELSE field = "position"
       [] ef.name = "pulse" /\ e.fn = "update" ->
            field = "scale" /\ fx.ball.isCurrentlyHighlighted
       [] OTHER -> FALSE

\* The invocations of the last tick that wrote the field, in their order.
WritesTo(field) == SelectSeq(calls, LAMBDA e : Writes(e, field))

\* Two animations wrote the field in the last tick.
Overlap(field) ==
  \E i, j \in DOMAIN WritesTo(field) : WritesTo(field)[i].anim # WritesTo(field)[j].anim

BallFields == {"scale", "position", "emissiveIntensity"}

\* C32: when two animations wrote the same field of the ball in one tick,
\* the last write is by the one registered later, update or completion, and
\* the field holds what that write wrote.
LastWriterWins ==
  \A field \in BallFields :
     Overlap(field) =>
       LET ws == WritesTo(field)
           last == ws[Len(ws)]
       IN /\ \A i \in DOMAIN ws : ws[i].anim <= last.anim
          /\ fx.ball[field] =
               Effect(Am, last.anim, last.fn, last.progress).fx.ball[field]

\* Two selection effects that write the scale completed in one tick.
LastWriterWinsWitness ==
  /\ Overlap("scale")
  /\ \E i, j \in DOMAIN calls :
       /\ calls[i].anim # calls[j].anim
       /\ calls[i].fn = "complete" /\ calls[j].fn = "complete"
       /\ anims[calls[i].anim].effect.name = "selection"
       /\ anims[calls[j].anim].effect.name = "selection"

\* C33: a ball in the free list has the scale, position and emissive
\* intensity release gave it: no effect started before the release writes
\* them.
FreeBallKeepsResetState ==
  fx.ball.free =>
    /\ fx.ball.scale = Num(100)
    /\ fx.ball.position = <<Num(0), Num(0)>>
    /\ fx.ball.emissiveIntensity = Num(5)

\* Every particle burst created so far, its handle cancelled or not.
BurstsCreated ==
  {a \in DOMAIN anims : anims[a].effect.name = "burst"}

\* C34: the primitive of every particle burst, cancelled and cleared ones
\* included, is out of the scene with geometry and material disposed after
\* any tick that runs once 800 ms have elapsed since the burst was created.
BurstRemovedOnceOver ==
  \A a \in BurstsCreated :
     \A dt \in BurstSteps :
        (rafPending # <<>> /\ now + dt - anims[a].startTime >= BurstDuration) =>
           LET u == RunFrame(AtRefresh(dt), rafPending)
           IN /\ a \notin u.fx.scene
              /\ Disposals(u.fx, a, "geometry") >= 1
              /\ Disposals(u.fx, a, "material") >= 1

\* C35: every ball in the free list is invisible and has no label attached,
\* and every ball in the active list is visible, whether a Label Pool is set
\* or not.
FreeHiddenActiveVisible ==
  /\ \A b \in Range(bpPool) : ~balls[b].visible /\ balls[b].label = Null
  /\ \A b \in Range(bpActive) : balls[b].visible

\* C36: when a lighting mood was asked for while an earlier transition was
\* still in progress, every light the lights object has is at the intensity
\* of the mood asked for last once no transition has a frame requested.
LastMoodWins ==
  (/\ fx.mood # Null
   /\ fx.lightLoop = <<>>
   /\ IF fx.mood = Null THEN FALSE
      ELSE fx.mood[1].overlaps /\ fx.mood[1].state \in Moods) =>
     \A k \in LightKeys :
        fx.lights[k] # Null =>
           FEq(fx.lights[k][1], StateConfigs[fx.mood[1].state][k])

\* The loop of generateNonConsecutiveNumbers is running.
Generating == fx.gen # Null /\ ~Generated

\* C37: under fair draws a call of generateNonConsecutiveNumbers with a
\* count from 0 to 100 returns, and a call with a larger count never does:
\* once the array holds the 100 numbers no draw changes it.
GenTerminatesUpToRange ==
  /\ (Generating /\ IF Generating THEN fx.gen[1].count <= NumberRange ELSE FALSE)
        ~> Generated
  /\ [](Generating =>
          IF fx.gen[1].count > NumberRange
          THEN /\ Len(fx.gen[1].numbers) <= NumberRange
               /\ Len(fx.gen[1].numbers) = NumberRange =>
                    \A d \in AllDraws : GenIterate(fx.gen[1], RandomNum(d)) = fx.gen[1]
          ELSE TRUE)
  /\ [](Generated => fx.gen[1].count <= NumberRange)

\* A call with count 100 has returned.
GenTerminatesUpToRangeWitness ==
  Generated /\ fx.gen[1].count = NumberRange

\* C38: a touchstart calls resetCamera only when it has one finger, the
\* user-turn predicate is false and an earlier one-finger touchstart lies
\* more than 0 and less than 300 ms back; no touchstart during the user's
\* turn calls it.
ResetOnlyOnDoubleTapOffTurn ==
  fx.touch # Null =>
    \A touches \in TouchCounts, dt \in TouchSteps :
       LET tc == [fx.touch[1] EXCEPT !.clock = @ + dt]
           u == OnTouchStart(tc, touches)
       IN /\ u.reset =>
               /\ touches = 1
               /\ ~IsUserTurn(tc)
               /\ tc.tapped # Null
               /\ tc.clock - tc.tapped[1] > 0
               /\ tc.clock - tc.tapped[1] < 300
          /\ IsUserTurn(tc) => ~u.reset

\* The last touchstart was a double tap that reset the camera, with a
\* callback set that says it is not the user's turn.
ResetOnlyOnDoubleTapOffTurnWitness ==
  /\ fx.touch # Null
  /\ IF fx.touch = Null THEN FALSE
     ELSE fx.touch[1].reset /\ fx.touch[1].isUserTurnCallback = Some(FALSE)

\* The records in the store of s.
Records(s) == {k \in AllKeys : s.objectStore[k] # Null}

FetchFromCacheThenNetwork(sw, request, net) ==
  LET u == OnFetch(sw, request, net)
      hit == CachesMatch(sw.cache, request)
  IN /\ hit # Null =>
          /\ u.last[1].response = hit
          /\ ~u.last[1].fetched
          /\ u.cache = sw.cache
     /\ (hit = Null /\ net # Null) =>
          /\ u.last[1].fetched
          /\ u.last[1].response = net
          /\ u.cache # sw.cache => (net[1].status = 200 /\ net[1].type = "basic")
          /\ \A url \in SwUrls :
               u.cache[url] # sw.cache[url] =>
                  (url = request.url /\ u.cache[url] = net)
     /\ (hit = Null /\ net = Null) => u.cache = sw.cache

\* C40 as stated: a cached match answers the request without a network
\* fetch; otherwise the network response is returned and cached only when
\* its status is 200 and its type basic; when the fetch fails the cached
\* '/index.html' is the answer.
FetchFallsBackToIndex ==
  fx.sw # Null =>
    \A request \in SwRequests, net \in SwNetwork :
       /\ FetchFromCacheThenNetwork(fx.sw[1], request, net)
       /\ (CachesMatch(fx.sw[1].cache, request) = Null /\ net = Null) =>
             /\ OnFetch(fx.sw[1], request, net).last[1].response # Null
             /\ OnFetch(fx.sw[1], request, net).last[1].response
                  = fx.sw[1].cache["/index.html"]

\* C40, amended: as above, but when the fetch fails the answer is what the
\* cache holds for '/index.html': the cached page when there is one, no
\* response when there is none.
FetchFallsBackToIndexIfCached ==
  fx.sw # Null =>
    \A request \in SwRequests, net \in SwNetwork :
       /\ FetchFromCacheThenNetwork(fx.sw[1], request, net)
       /\ (CachesMatch(fx.sw[1].cache, request) = Null /\ net = Null) =>
             OnFetch(fx.sw[1], request, net).last[1].response
               = fx.sw[1].cache["/index.html"]

\* The last fetch event found no match, its fetch failed and it was answered
\* with the cached '/index.html', while a network response is in the cache.
FetchFallsBackToIndexIfCachedWitness ==
  /\ fx.sw # Null
  /\ IF fx.sw = Null THEN FALSE
     ELSE /\ fx.sw[1].last # Null
          /\ IF fx.sw[1].last = Null THEN FALSE
             ELSE /\ fx.sw[1].last[1].fetched
                  /\ fx.sw[1].last[1].request.url # "/index.html"
                  /\ fx.sw[1].last[1].response = Some(SwInstalled)
          /\ \E url \in SwUrls :
               IF fx.sw[1].cache[url] = Null THEN FALSE
               ELSE fx.sw[1].cache[url][1].body = "network"

====
